---- MODULE Spec2Model ----
(***************************************************************************)
(* Model of one Ready channel of the validating Lightning signer: its      *)
(* EnforcementState, the SimpleValidator policy checks that gate every     *)
(* signing request, and the Channel operations that call the validator     *)
(* and then advance the state.                                             *)
(***************************************************************************)
EXTENDS Integers, Sequences, FiniteSets, TLC

VARIABLES
    setup,      \* ChannelSetup of the channel (immutable once Ready)
    estate,     \* EnforcementState of the channel
    allowlist,  \* the node's allowlist: a set of scripts
    last,       \* the most recent request: operation, arguments, result
    cp_signed,  \* history: the <<commit_num, point>> of every counterparty
                \* commitment the signer has signed
    channels,   \* the node's channels map: ChannelId -> handle of a slot
    slots,      \* the shared ChannelSlots, by handle: a Stub or a Ready channel
    persisted,  \* the persister's channel records, by id0
    threads     \* the requests in progress: position, locks held, locals

node_vars == <<channels, slots, persisted, threads>>

vars == <<setup, estate, allowlist, last, cp_signed, channels, slots, persisted,
          threads>>


(***************************************************************************)
(* Bounds of the model.                                                    *)
(***************************************************************************)
MaxCommitNum == 2      \* requests name commitment numbers 0..MaxCommitNum
NumSecrets == 2        \* distinct per-commitment secrets the counterparty uses

CommitNums == 0..MaxCommitNum
Secrets == 1..NumSecrets

(***************************************************************************)
(* Option<T>: None is the empty sequence, Some(x) the one-element one.     *)
(***************************************************************************)
None == <<>>
Some(x) == <<x>>
IsSome(o) == Len(o) = 1
IsNone(o) == Len(o) = 0
Unwrap(o) == o[1]

(***************************************************************************)
(* The node's channels map.  A ChannelId is a number; the map gives each   *)
(* id the handle of a shared slot (an Arc<Mutex<ChannelSlot>>), or 0 where  *)
(* the id has no entry.  A handle nothing refers to holds NoSlot.          *)
(***************************************************************************)
NumChannelIds == 3     \* channel ids the front-end uses
NumThreads == 2        \* requests that can be in progress at once

ChannelIds == 1..NumChannelIds
Threads == 1..NumThreads
Handles == 1..(2 * NumChannelIds + NumThreads)
NoSlot == [ kind |-> "None" ]

\* A node with no channel and no request in progress, as Node::new leaves it.
Node_new ==
    /\ channels = [ id \in ChannelIds |-> 0 ]
    /\ slots = [ h \in Handles |-> NoSlot ]
    /\ persisted = [ id \in ChannelIds |-> None ]
    /\ threads = [ t \in Threads |-> [ pc |-> "idle" ] ]

(***************************************************************************)
(* PublicKey::from_secret_key: injective, and not the identity.            *)
(***************************************************************************)
Pubkey(secret) == 2 * secret + 1
Points == { Pubkey(s) : s \in Secrets }

(***************************************************************************)
(* Policy and program constants.                                           *)
(***************************************************************************)
MIN_DUST_LIMIT_SATOSHIS == 546
DUST_RELAY_TX_FEE == 3000
HTLC_TIMEOUT_TX_WEIGHT == 663
HTLC_SUCCESS_TX_WEIGHT == 703

\* make_simple_policy(network) for a network other than Bitcoin mainnet
policy ==
    [ min_delay            |-> 4,
      max_delay            |-> 2016,
      max_channel_size_sat |-> 1000000001,
      max_push_sat         |-> 20000,
      epsilon_sat          |-> 10000,
      max_htlcs            |-> 1000,
      max_htlc_value_sat   |-> 16777216,
      use_chain_state      |-> FALSE,
      min_feerate_per_kw   |-> 500,
      max_feerate_per_kw   |-> 16000,
      min_fee              |-> 100,
      max_fee              |-> 80000 ]

\* ChainState passed with every request
cstate == [ current_height |-> 0 ]

(***************************************************************************)
(* Results.  A validation returns "ok" or the text of the error it found;  *)
(* every error of the validator and of EnforcementState is a               *)
(* PolicyFailure.                                                          *)
(***************************************************************************)
OK == "ok"

(***************************************************************************)
(* CommitmentInfo2 and HTLCInfo2.                                          *)
(***************************************************************************)
HTLCInfo2(value_sat, payment_hash, cltv_expiry) ==
    [ value_sat |-> value_sat, payment_hash |-> payment_hash,
      cltv_expiry |-> cltv_expiry ]

CommitmentInfo2(is_cp, to_broadcaster, to_countersigner, delay, offered, received) ==
    [ is_counterparty_broadcaster |-> is_cp,
      to_broadcaster_value_sat    |-> to_broadcaster,
      to_countersigner_value_sat  |-> to_countersigner,
      to_self_delay               |-> delay,
      offered_htlcs               |-> offered,
      received_htlcs              |-> received ]

htlcs_is_empty(info) ==
    Len(info.offered_htlcs) = 0 /\ Len(info.received_htlcs) = 0

(***************************************************************************)
(* EnforcementState accessors.                                             *)
(***************************************************************************)
get_previous_counterparty_point(es, num) ==
    IF num + 1 = es.next_counterparty_commit_num
    THEN es.current_counterparty_point
    ELSE IF num + 2 = es.next_counterparty_commit_num
         THEN es.previous_counterparty_point
         ELSE None

get_previous_counterparty_commit_info(es, num) ==
    IF num + 1 = es.next_counterparty_commit_num
    THEN es.current_counterparty_commit_info
    ELSE IF num + 2 = es.next_counterparty_commit_num
         THEN es.previous_counterparty_commit_info
         ELSE None

(***************************************************************************)
(* SimpleValidator helpers.                                                *)
(***************************************************************************)
validate_delay(name, delay) ==
    IF delay < policy.min_delay THEN name \o " too small"
    ELSE IF delay > policy.max_delay THEN name \o " too large"
    ELSE OK

validate_expiry(name, expiry, current_height) ==
    IF policy.use_chain_state
    THEN IF expiry < current_height + policy.min_delay
         THEN name \o " expiry too early"
         ELSE IF expiry > current_height + policy.max_delay
              THEN name \o " expiry too late"
              ELSE OK
    ELSE OK

validate_fee(sum_inputs, sum_outputs) ==
    IF sum_inputs < sum_outputs THEN "fee underflow"
    ELSE IF sum_inputs - sum_outputs < policy.min_fee THEN "fee below minimum"
    ELSE IF sum_inputs - sum_outputs > policy.max_fee THEN "fee above maximum"
    ELSE OK

\* The comparison that takes no offence at a value that is too small.
outside_epsilon_range_larger_only(value0, value1) ==
    IF value0 > value1
    THEN << value0 - value1 > policy.epsilon_sat, "larger" >>
    ELSE << FALSE, "smaller" >>

\* <<outside, description>>
outside_epsilon_range(value0, value1) ==
    IF value0 > value1
    THEN <<value0 - value1 > policy.epsilon_sat, "larger">>
    ELSE <<value1 - value0 > policy.epsilon_sat, "smaller">>

offered_htlc_dust_limit ==
    MIN_DUST_LIMIT_SATOSHIS + (DUST_RELAY_TX_FEE * HTLC_TIMEOUT_TX_WEIGHT) \div 1000

received_htlc_dust_limit ==
    MIN_DUST_LIMIT_SATOSHIS + (DUST_RELAY_TX_FEE * HTLC_SUCCESS_TX_WEIGHT) \div 1000

\* The loop over one HTLC list of validate_commitment_tx: the first error met,
\* or the running sum of the HTLC values.
RECURSIVE scan_htlcs(_, _, _, _, _)
scan_htlcs(name, htlcs, i, sum, dust_limit) ==
    IF i > Len(htlcs) THEN [ rv |-> OK, sum |-> sum ]
    ELSE LET htlc == htlcs[i]
             exp == validate_expiry(name \o " HTLC", htlc.cltv_expiry,
                                    cstate.current_height)
         IN  IF exp # OK THEN [ rv |-> exp, sum |-> sum ]
             ELSE IF htlc.value_sat < dust_limit
                  THEN [ rv |-> name \o " htlc.value_sat less than dust limit",
                         sum |-> sum ]
                  ELSE scan_htlcs(name, htlcs, i + 1, sum + htlc.value_sat,
                                  dust_limit)

\* Common commitment validation applicable to both holder and counterparty txs
validate_commitment_tx(es, commit_num, commitment_point, su, cs, info) ==
    IF info.to_broadcaster_value_sat > 0
       /\ info.to_broadcaster_value_sat < MIN_DUST_LIMIT_SATOSHIS
    THEN "to_broadcaster_value_sat less than dust limit"
    ELSE IF info.to_countersigner_value_sat > 0
            /\ info.to_countersigner_value_sat < MIN_DUST_LIMIT_SATOSHIS
    THEN "to_countersigner_value_sat less than dust limit"
    ELSE IF Len(info.offered_htlcs) + Len(info.received_htlcs) > policy.max_htlcs
    THEN "too many HTLCs"
    ELSE
    LET off == scan_htlcs("offered", info.offered_htlcs, 1, 0,
                          offered_htlc_dust_limit)
    IN  IF off.rv # OK THEN off.rv
        ELSE
        LET rcv == scan_htlcs("received", info.received_htlcs, 1, off.sum,
                              received_htlc_dust_limit)
        IN  IF rcv.rv # OK THEN rcv.rv
            ELSE IF rcv.sum > policy.max_htlc_value_sat
            THEN "sum of HTLC values too large"
            ELSE
            LET sum_outputs == info.to_broadcaster_value_sat
                               + info.to_countersigner_value_sat + rcv.sum
                fee == validate_fee(su.channel_value_sat, sum_outputs)
                fundee_value_sat ==
                    IF info.is_counterparty_broadcaster
                    THEN info.to_broadcaster_value_sat
                    ELSE info.to_countersigner_value_sat
            IN  IF fee # OK THEN fee
                ELSE IF commit_num = 0
                        /\ Len(info.offered_htlcs) + Len(info.received_htlcs) > 0
                THEN "initial commitment may not have HTLCS"
                ELSE IF commit_num = 0 /\ su.is_outbound
                        /\ fundee_value_sat > su.push_value_msat \div 1000
                THEN "initial commitment may only send push_value_msat to fundee"
                ELSE OK

\* The validator without the check against next_counterparty_revoke_num.
validate_counterparty_commitment_tx_norevoke(es, commit_num, commitment_point, su, cs, info) ==
    LET common == validate_commitment_tx(es, commit_num, commitment_point, su, cs, info)
        prev_commit_point == get_previous_counterparty_point(es, commit_num)
        prev_commit_info == get_previous_counterparty_commit_info(es, commit_num)
    IN  IF common # OK THEN common
        ELSE IF info.to_self_delay # su.holder_selected_contest_delay
        THEN "holder_selected_contest_delay mismatch"
        ELSE IF commit_num + 1 = es.next_counterparty_commit_num
        THEN IF IsNone(prev_commit_point)
             THEN "counterparty point out of range"
             ELSE IF commitment_point # Unwrap(prev_commit_point)
             THEN "retry of sign_counterparty_commitment with changed point"
             ELSE IF IsNone(prev_commit_info)
             THEN "counterparty commit info out of range"
             ELSE IF info # Unwrap(prev_commit_info)
             THEN "retry of sign_counterparty_commitment with changed info"
             ELSE OK
        ELSE OK

\* The validator without the comparison of a retry against the stored values.
validate_counterparty_commitment_tx_noretry(es, commit_num, commitment_point, su, cs, info) ==
    LET common == validate_commitment_tx(es, commit_num, commitment_point, su, cs, info)
    IN  IF common # OK THEN common
        ELSE IF info.to_self_delay # su.holder_selected_contest_delay
        THEN "holder_selected_contest_delay mismatch"
        ELSE IF commit_num > es.next_counterparty_revoke_num + 1
        THEN "invalid attempt to sign counterparty commit_num"
        ELSE OK

\* The validator refusing a new counterparty commitment once a mutual close
\* has been signed.
validate_counterparty_commitment_tx_notclosed(es, commit_num, commitment_point, su, cs, info) ==
    LET common == validate_commitment_tx(es, commit_num, commitment_point, su, cs, info)
        prev_commit_point == get_previous_counterparty_point(es, commit_num)
        prev_commit_info == get_previous_counterparty_commit_info(es, commit_num)
    IN  IF common # OK THEN common
        ELSE IF info.to_self_delay # su.holder_selected_contest_delay
        THEN "holder_selected_contest_delay mismatch"
        ELSE IF commit_num > es.next_counterparty_revoke_num + 1
        THEN "invalid attempt to sign counterparty commit_num"
        ELSE IF commit_num + 1 = es.next_counterparty_commit_num
        THEN IF IsNone(prev_commit_point)
             THEN "counterparty point out of range"
             ELSE IF commitment_point # Unwrap(prev_commit_point)
             THEN "retry of sign_counterparty_commitment with changed point"
             ELSE IF IsNone(prev_commit_info)
             THEN "counterparty commit info out of range"
             ELSE IF info # Unwrap(prev_commit_info)
             THEN "retry of sign_counterparty_commitment with changed info"
             ELSE OK
        ELSE IF commit_num = es.next_counterparty_commit_num /\ es.mutual_close_signed
        THEN "mutual close already signed"
        ELSE OK

\* The validator asking that every earlier commitment has been revoked.
validate_counterparty_commitment_tx_all_revoked(es, commit_num, commitment_point, su, cs, info) ==
    LET common == validate_commitment_tx(es, commit_num, commitment_point, su, cs, info)
        prev_commit_point == get_previous_counterparty_point(es, commit_num)
        prev_commit_info == get_previous_counterparty_commit_info(es, commit_num)
    IN  IF common # OK THEN common
        ELSE IF info.to_self_delay # su.holder_selected_contest_delay
        THEN "holder_selected_contest_delay mismatch"
        ELSE IF commit_num > es.next_counterparty_revoke_num
        THEN "invalid attempt to sign counterparty commit_num"
        ELSE IF commit_num + 1 = es.next_counterparty_commit_num
        THEN IF IsNone(prev_commit_point)
             THEN "counterparty point out of range"
             ELSE IF commitment_point # Unwrap(prev_commit_point)
             THEN "retry of sign_counterparty_commitment with changed point"
             ELSE IF IsNone(prev_commit_info)
             THEN "counterparty commit info out of range"
             ELSE IF info # Unwrap(prev_commit_info)
             THEN "retry of sign_counterparty_commitment with changed info"
             ELSE OK
        ELSE OK

validate_counterparty_commitment_tx(es, commit_num, commitment_point, su, cs, info) ==
    LET common == validate_commitment_tx(es, commit_num, commitment_point, su, cs, info)
        prev_commit_point == get_previous_counterparty_point(es, commit_num)
        prev_commit_info == get_previous_counterparty_commit_info(es, commit_num)
    IN  IF common # OK THEN common
        ELSE IF info.to_self_delay # su.holder_selected_contest_delay
        THEN "holder_selected_contest_delay mismatch"
        ELSE IF commit_num > es.next_counterparty_revoke_num + 1
        THEN "invalid attempt to sign counterparty commit_num"
        ELSE IF commit_num + 1 = es.next_counterparty_commit_num
        THEN IF IsNone(prev_commit_point)
             THEN "counterparty point out of range"
             ELSE IF commitment_point # Unwrap(prev_commit_point)
             THEN "retry of sign_counterparty_commitment with changed point"
             ELSE IF IsNone(prev_commit_info)
             THEN "counterparty commit info out of range"
             ELSE IF info # Unwrap(prev_commit_info)
             THEN "retry of sign_counterparty_commitment with changed info"
             ELSE OK
        ELSE OK

\* The validator without the check that the commitment is not revoked.
validate_holder_commitment_tx_unrevoked(es, commit_num, commitment_point, su, cs, info) ==
    LET common == validate_commitment_tx(es, commit_num, commitment_point, su, cs, info)
    IN  IF common # OK THEN common
        ELSE IF info.to_self_delay # su.counterparty_selected_contest_delay
        THEN "counterparty_selected_contest_delay mismatch"
        ELSE IF commit_num + 1 = es.next_holder_commit_num
                /\ IsNone(es.current_holder_commit_info)
        THEN "panic: current_holder_commit_info"
        ELSE IF commit_num + 1 = es.next_holder_commit_num
                /\ info # Unwrap(es.current_holder_commit_info)
        THEN "retry holder commitment with changed info"
        ELSE IF commit_num = es.next_holder_commit_num /\ es.mutual_close_signed
        THEN "mutual close already signed"
        ELSE OK

\* The validator without the comparison of a retry against the stored info.
validate_holder_commitment_tx_noretry(es, commit_num, commitment_point, su, cs, info) ==
    LET common == validate_commitment_tx(es, commit_num, commitment_point, su, cs, info)
    IN  IF common # OK THEN common
        ELSE IF info.to_self_delay # su.counterparty_selected_contest_delay
        THEN "counterparty_selected_contest_delay mismatch"
        ELSE IF commit_num + 2 <= es.next_holder_commit_num
        THEN "can't sign revoked commitment_number"
        ELSE IF commit_num = es.next_holder_commit_num /\ es.mutual_close_signed
        THEN "mutual close already signed"
        ELSE OK

\* The validator without the check that no mutual close has been signed.
validate_holder_commitment_tx_closed(es, commit_num, commitment_point, su, cs, info) ==
    LET common == validate_commitment_tx(es, commit_num, commitment_point, su, cs, info)
    IN  IF common # OK THEN common
        ELSE IF info.to_self_delay # su.counterparty_selected_contest_delay
        THEN "counterparty_selected_contest_delay mismatch"
        ELSE IF commit_num + 1 = es.next_holder_commit_num
                /\ IsNone(es.current_holder_commit_info)
        THEN "panic: current_holder_commit_info"
        ELSE IF commit_num + 1 = es.next_holder_commit_num
                /\ info # Unwrap(es.current_holder_commit_info)
        THEN "retry holder commitment with changed info"
        ELSE IF commit_num + 2 <= es.next_holder_commit_num
        THEN "can't sign revoked commitment_number"
        ELSE OK

validate_holder_commitment_tx(es, commit_num, commitment_point, su, cs, info) ==
    LET common == validate_commitment_tx(es, commit_num, commitment_point, su, cs, info)
    IN  IF common # OK THEN common
        ELSE IF info.to_self_delay # su.counterparty_selected_contest_delay
        THEN "counterparty_selected_contest_delay mismatch"
        ELSE IF commit_num + 1 = es.next_holder_commit_num
                /\ IsNone(es.current_holder_commit_info)
        THEN "panic: current_holder_commit_info"
        ELSE IF commit_num + 1 = es.next_holder_commit_num
                /\ info # Unwrap(es.current_holder_commit_info)
        THEN "retry holder commitment with changed info"
        ELSE IF commit_num + 2 <= es.next_holder_commit_num
        THEN "can't sign revoked commitment_number"
        ELSE IF commit_num = es.next_holder_commit_num /\ es.mutual_close_signed
        THEN "mutual close already signed"
        ELSE OK

\* The validator without the comparison of the supplied secret's point.
validate_counterparty_revocation_nopoint(es, revoke_num, commitment_secret) ==
    LET prev_commit_point == get_previous_counterparty_point(es, revoke_num)
    IN  IF revoke_num # es.next_counterparty_revoke_num
           /\ revoke_num + 1 # es.next_counterparty_revoke_num
        THEN "invalid counterparty revoke_num"
        ELSE IF IsNone(prev_commit_point)
        THEN "counterparty point out of range"
        ELSE OK

\* The validator accepting only the next revocation, never a repeated one.
validate_counterparty_revocation_noretry(es, revoke_num, commitment_secret) ==
    LET supplied_commit_point == Pubkey(commitment_secret)
        prev_commit_point == get_previous_counterparty_point(es, revoke_num)
    IN  IF revoke_num # es.next_counterparty_revoke_num
        THEN "invalid counterparty revoke_num"
        ELSE IF IsNone(prev_commit_point)
        THEN "counterparty point out of range"
        ELSE IF supplied_commit_point # Unwrap(prev_commit_point)
        THEN "revocation commit point mismatch"
        ELSE OK

\* The validator without the comparison with next_counterparty_revoke_num.
validate_counterparty_revocation_any_num(es, revoke_num, commitment_secret) ==
    LET supplied_commit_point == Pubkey(commitment_secret)
        prev_commit_point == get_previous_counterparty_point(es, revoke_num)
    IN  IF IsNone(prev_commit_point)
        THEN "counterparty point out of range"
        ELSE IF supplied_commit_point # Unwrap(prev_commit_point)
        THEN "revocation commit point mismatch"
        ELSE OK

validate_counterparty_revocation(es, revoke_num, commitment_secret) ==
    LET supplied_commit_point == Pubkey(commitment_secret)
        prev_commit_point == get_previous_counterparty_point(es, revoke_num)
    IN  IF revoke_num # es.next_counterparty_revoke_num
           /\ revoke_num + 1 # es.next_counterparty_revoke_num
        THEN "invalid counterparty revoke_num"
        ELSE IF IsNone(prev_commit_point)
        THEN "counterparty point out of range"
        ELSE IF supplied_commit_point # Unwrap(prev_commit_point)
        THEN "revocation commit point mismatch"
        ELSE OK

(***************************************************************************)
(* EnforcementState transitions.  Each returns the result and the state    *)
(* it leaves: the state is assigned only when every guard has passed.      *)
(***************************************************************************)
EnforcementState_new ==
    [ next_holder_commit_num            |-> 0,
      next_counterparty_commit_num      |-> 0,
      next_counterparty_revoke_num      |-> 0,
      current_counterparty_point        |-> None,
      previous_counterparty_point       |-> None,
      current_holder_commit_info        |-> None,
      current_counterparty_commit_info  |-> None,
      previous_counterparty_commit_info |-> None,
      mutual_close_signed               |-> FALSE ]

\* The setter taking any number.
set_next_holder_commit_num_any_progression(es, num, current_commitment_info) ==
    [ rv |-> OK,
      es |-> [ es EXCEPT
               !.next_holder_commit_num = num,
               !.current_holder_commit_info = Some(current_commitment_info) ] ]

\* The setter that counts the new commitment twice.
set_next_holder_commit_num_twice(es, num, current_commitment_info) ==
    LET current == es.next_holder_commit_num
    IN  IF num # current /\ num # current + 1
        THEN [ rv |-> "set_next_holder_commit_num: invalid progression", es |-> es ]
        ELSE IF num = current
        THEN [ rv |-> OK, es |-> es ]
        ELSE [ rv |-> OK,
               es |-> [ es EXCEPT
                        !.next_holder_commit_num = num + 1,
                        !.current_holder_commit_info = Some(current_commitment_info) ] ]

set_next_holder_commit_num(es, num, current_commitment_info) ==
    LET current == es.next_holder_commit_num
    IN  IF num # current /\ num # current + 1
        THEN [ rv |-> "set_next_holder_commit_num: invalid progression", es |-> es ]
        ELSE IF num = current
        THEN [ rv |-> OK, es |-> es ]
        ELSE [ rv |-> OK,
               es |-> [ es EXCEPT
                        !.next_holder_commit_num = num,
                        !.current_holder_commit_info = Some(current_commitment_info) ] ]

\* The setter writing the advanced number to the revoke counter.
set_next_counterparty_commit_num_wrong_counter(es, num, current_point, current_commitment_info) ==
    LET delta == IF num = 1 THEN 1 ELSE 2
        current == es.next_counterparty_commit_num
    IN  IF num = 0 \/ num < es.next_counterparty_revoke_num + delta
           \/ num > es.next_counterparty_revoke_num + 2
           \/ (num # current /\ num # current + 1)
        THEN [ rv |-> "set_next_counterparty_commit_num: rejected", es |-> es ]
        ELSE IF num = current
        THEN IF Some(current_point) # es.current_counterparty_point
                \/ Some(current_commitment_info) # es.current_counterparty_commit_info
             THEN [ rv |-> "set_next_counterparty_commit_num: retry: different than prior",
                    es |-> es ]
             ELSE [ rv |-> OK, es |-> es ]
        ELSE [ rv |-> OK,
               es |-> [ es EXCEPT
                        !.previous_counterparty_point = es.current_counterparty_point,
                        !.previous_counterparty_commit_info =
                            es.current_counterparty_commit_info,
                        !.current_counterparty_point = Some(current_point),
                        !.current_counterparty_commit_info = Some(current_commitment_info),
                        !.next_counterparty_revoke_num = num ] ]

\* The setter shifting the stored points and infos before it checks the number.
set_next_counterparty_commit_num_shift_first(es, num, current_point, current_commitment_info) ==
    LET delta == IF num = 1 THEN 1 ELSE 2
        current == es.next_counterparty_commit_num
        shifted == [ es EXCEPT
                     !.previous_counterparty_point = es.current_counterparty_point,
                     !.previous_counterparty_commit_info =
                         es.current_counterparty_commit_info,
                     !.current_counterparty_point = Some(current_point),
                     !.current_counterparty_commit_info = Some(current_commitment_info) ]
    IN  IF num = 0 \/ num < es.next_counterparty_revoke_num + delta
           \/ num > es.next_counterparty_revoke_num + 2
           \/ (num # current /\ num # current + 1)
        THEN [ rv |-> "set_next_counterparty_commit_num: rejected", es |-> shifted ]
        ELSE IF num = current
        THEN IF Some(current_point) # es.current_counterparty_point
                \/ Some(current_commitment_info) # es.current_counterparty_commit_info
             THEN [ rv |-> "set_next_counterparty_commit_num: retry: different than prior",
                    es |-> es ]
             ELSE [ rv |-> OK, es |-> es ]
        ELSE [ rv |-> OK, es |-> [ shifted EXCEPT !.next_counterparty_commit_num = num ] ]

\* The setter accepting a retry without comparing the point.
set_next_counterparty_commit_num_any_point(es, num, current_point, current_commitment_info) ==
    LET delta == IF num = 1 THEN 1 ELSE 2
        current == es.next_counterparty_commit_num
    IN  IF num = 0 \/ num < es.next_counterparty_revoke_num + delta
           \/ num > es.next_counterparty_revoke_num + 2
           \/ (num # current /\ num # current + 1)
        THEN [ rv |-> "set_next_counterparty_commit_num: rejected", es |-> es ]
        ELSE IF num = current
        THEN IF Some(current_commitment_info) # es.current_counterparty_commit_info
             THEN [ rv |-> "set_next_counterparty_commit_num: retry: info different than prior",
                    es |-> es ]
             ELSE [ rv |-> OK, es |-> es ]
        ELSE [ rv |-> OK,
               es |-> [ es EXCEPT
                        !.previous_counterparty_point = es.current_counterparty_point,
                        !.previous_counterparty_commit_info =
                            es.current_counterparty_commit_info,
                        !.current_counterparty_point = Some(current_point),
                        !.current_counterparty_commit_info = Some(current_commitment_info),
                        !.next_counterparty_commit_num = num ] ]

set_next_counterparty_commit_num(es, num, current_point, current_commitment_info) ==
    LET delta == IF num = 1 THEN 1 ELSE 2
        current == es.next_counterparty_commit_num
    IN  IF num = 0
        THEN [ rv |-> "set_next_counterparty_commit_num: can't set next to 0", es |-> es ]
        ELSE IF num < es.next_counterparty_revoke_num + delta
        THEN [ rv |-> "set_next_counterparty_commit_num: too small relative to next_counterparty_revoke_num",
               es |-> es ]
        ELSE IF num > es.next_counterparty_revoke_num + 2
        THEN [ rv |-> "set_next_counterparty_commit_num: too large relative to next_counterparty_revoke_num",
               es |-> es ]
        ELSE IF num = current
        THEN IF Some(current_point) # es.current_counterparty_point
             THEN [ rv |-> "set_next_counterparty_commit_num: retry: point different than prior",
                    es |-> es ]
             ELSE IF Some(current_commitment_info) # es.current_counterparty_commit_info
             THEN [ rv |-> "set_next_counterparty_commit_num: retry: info different than prior",
                    es |-> es ]
             ELSE [ rv |-> OK, es |-> es ]
        ELSE IF num = current + 1
        THEN [ rv |-> OK,
               es |-> [ es EXCEPT
                        !.previous_counterparty_point = es.current_counterparty_point,
                        !.previous_counterparty_commit_info =
                            es.current_counterparty_commit_info,
                        !.current_counterparty_point = Some(current_point),
                        !.current_counterparty_commit_info = Some(current_commitment_info),
                        !.next_counterparty_commit_num = num ] ]
        ELSE [ rv |-> "set_next_counterparty_commit_num: invalid progression", es |-> es ]

\* The setter clearing the previous point together with the previous info.
set_next_counterparty_revoke_num_clear_point(es, num) ==
    LET current == es.next_counterparty_revoke_num
    IN  IF num = 0 \/ num + 2 < es.next_counterparty_commit_num
           \/ num + 1 > es.next_counterparty_commit_num
           \/ (num # current /\ num # current + 1)
        THEN [ rv |-> "set_next_counterparty_revoke_num: rejected", es |-> es ]
        ELSE [ rv |-> OK,
               es |-> [ es EXCEPT
                        !.next_counterparty_revoke_num = num,
                        !.previous_counterparty_point =
                            IF num + 1 = es.next_counterparty_commit_num
                            THEN None
                            ELSE es.previous_counterparty_point,
                        !.previous_counterparty_commit_info =
                            IF num + 1 = es.next_counterparty_commit_num
                            THEN None
                            ELSE es.previous_counterparty_commit_info ] ]

\* The setter letting the revoke number reach the commit number.
set_next_counterparty_revoke_num_upto_commit(es, num) ==
    LET current == es.next_counterparty_revoke_num
    IN  IF num = 0 \/ num + 2 < es.next_counterparty_commit_num
           \/ num > es.next_counterparty_commit_num
           \/ (num # current /\ num # current + 1)
        THEN [ rv |-> "set_next_counterparty_revoke_num: rejected", es |-> es ]
        ELSE [ rv |-> OK,
               es |-> [ es EXCEPT
                        !.next_counterparty_revoke_num = num,
                        !.previous_counterparty_commit_info =
                            IF num + 1 = es.next_counterparty_commit_num
                            THEN None
                            ELSE es.previous_counterparty_commit_info ] ]

set_next_counterparty_revoke_num(es, num) ==
    LET current == es.next_counterparty_revoke_num
    IN  IF num = 0
        THEN [ rv |-> "set_next_counterparty_revoke_num: can't set next to 0", es |-> es ]
        ELSE IF num + 2 < es.next_counterparty_commit_num
        THEN [ rv |-> "set_next_counterparty_revoke_num: too small relative to next_counterparty_commit_num",
               es |-> es ]
        ELSE IF num + 1 > es.next_counterparty_commit_num
        THEN [ rv |-> "set_next_counterparty_revoke_num: too large relative to next_counterparty_commit_num",
               es |-> es ]
        ELSE IF num # current /\ num # current + 1
        THEN [ rv |-> "set_next_counterparty_revoke_num: invalid progression", es |-> es ]
        ELSE [ rv |-> OK,
               es |-> [ es EXCEPT
                        !.next_counterparty_revoke_num = num,
                        \* the previous point is kept: a retried revocation needs it
                        !.previous_counterparty_commit_info =
                            IF num + 1 = es.next_counterparty_commit_num
                            THEN None
                            ELSE es.previous_counterparty_commit_info ] ]

\* Values the two stored commitments agree on (within epsilon), if they do.
minimum_to_holder_value(es, epsilon) ==
    IF IsSome(es.current_holder_commit_info)
       /\ IsSome(es.current_counterparty_commit_info)
    THEN LET hval == Unwrap(es.current_holder_commit_info).to_broadcaster_value_sat
             cval == Unwrap(es.current_counterparty_commit_info).to_countersigner_value_sat
         IN  IF hval > cval
             THEN IF hval - cval <= epsilon THEN Some(cval) ELSE None
             ELSE IF cval - hval <= epsilon THEN Some(hval) ELSE None
    ELSE None

minimum_to_counterparty_value(es, epsilon) ==
    IF IsSome(es.current_holder_commit_info)
       /\ IsSome(es.current_counterparty_commit_info)
    THEN LET hval == Unwrap(es.current_holder_commit_info).to_countersigner_value_sat
             cval == Unwrap(es.current_counterparty_commit_info).to_broadcaster_value_sat
         IN  IF hval > cval
             THEN IF hval - cval <= epsilon THEN Some(cval) ELSE None
             ELSE IF cval - hval <= epsilon THEN Some(hval) ELSE None
    ELSE None

\* Option<u64> ordering of Rust: None is less than every Some.
OptionGreater(a, b) ==
    IF IsNone(a) THEN FALSE
    ELSE IF IsNone(b) THEN TRUE
    ELSE Unwrap(a) > Unwrap(b)

(***************************************************************************)
(* Wallet view of the node.  Scripts are numbers (their byte order is the  *)
(* order of the numbers); a wallet path is a sequence of child indexes.    *)
(***************************************************************************)
native_script(child_path) == 100 + child_path[1]
wrapped_script(child_path) == 200 + child_path[1]

can_spend(child_path, script_pubkey) ==
    IF Len(child_path) = 0 THEN FALSE
    ELSE script_pubkey = native_script(child_path)
         \/ script_pubkey = wrapped_script(child_path)

allowlist_contains(al, script_pubkey) == script_pubkey \in al

(***************************************************************************)
(* Mutual close.                                                           *)
(***************************************************************************)
TxOut(value, script_pubkey) == [ value |-> value, script_pubkey |-> script_pubkey ]

\* BIP 69 order of two outputs: by value, then by script.
OutputBefore(a, b) ==
    a.value < b.value \/ (a.value = b.value /\ a.script_pubkey <= b.script_pubkey)

\* ClosingTransaction::new(..).trust().built_transaction(): the outputs with
\* a value, sorted.
built_closing_outputs(to_holder_value_sat, to_counterparty_value_sat, holder_script, counterparty_script) ==
    LET cp == IF to_counterparty_value_sat > 0
              THEN << TxOut(to_counterparty_value_sat,
                            IF IsSome(counterparty_script)
                            THEN Unwrap(counterparty_script) ELSE 0) >>
              ELSE << >>
        ho == IF to_holder_value_sat > 0
              THEN << TxOut(to_holder_value_sat,
                            IF IsSome(holder_script)
                            THEN Unwrap(holder_script) ELSE 0) >>
              ELSE << >>
        both == cp \o ho
    IN  IF Len(both) = 2 /\ ~OutputBefore(both[1], both[2])
        THEN << both[2], both[1] >>
        ELSE both

\* The validator without the check for pending HTLCs.
validate_mutual_close_tx_pending_htlcs(al, su, es, to_holder_value_sat, to_counterparty_value_sat, holder_script, counterparty_script, holder_wallet_path_hint) ==
    IF IsNone(es.current_holder_commit_info)
    THEN "current_holder_commit_info missing"
    ELSE IF IsNone(es.current_counterparty_commit_info)
    THEN "current_counterparty_commit_info missing"
    ELSE
    LET holder_info == Unwrap(es.current_holder_commit_info)
        counterparty_info == Unwrap(es.current_counterparty_commit_info)
        sum_outputs == to_holder_value_sat + to_counterparty_value_sat
        fee == validate_fee(su.channel_value_sat, sum_outputs)
    IN  IF to_holder_value_sat > 0 /\ IsNone(holder_script)
        THEN "missing holder_script"
        ELSE IF to_counterparty_value_sat > 0 /\ IsNone(counterparty_script)
        THEN "missing counterparty_script"
        ELSE IF IsSome(su.holder_shutdown_script) /\ to_holder_value_sat > 0
                /\ holder_script # su.holder_shutdown_script
        THEN "holder_script doesn't match upfront holder_shutdown_script"
        ELSE IF fee # OK THEN fee
        ELSE IF su.is_outbound
                /\ outside_epsilon_range(to_counterparty_value_sat,
                                         counterparty_info.to_broadcaster_value_sat)[1]
        THEN "to_counterparty_value outside counterparty_info.broadcaster_value_sat"
        ELSE IF su.is_outbound
                /\ outside_epsilon_range(to_counterparty_value_sat,
                                         holder_info.to_countersigner_value_sat)[1]
        THEN "to_counterparty_value outside holder_info.countersigner_value_sat"
        ELSE IF ~su.is_outbound
                /\ outside_epsilon_range(to_holder_value_sat,
                                         holder_info.to_broadcaster_value_sat)[1]
        THEN "to_holder_value outside holder_info.broadcaster_value_sat"
        ELSE IF ~su.is_outbound
                /\ outside_epsilon_range(to_holder_value_sat,
                                         counterparty_info.to_countersigner_value_sat)[1]
        THEN "to_holder_value outside counterparty_info.countersigner_value_sat"
        ELSE IF IsSome(holder_script)
                /\ ~can_spend(holder_wallet_path_hint, Unwrap(holder_script))
                /\ ~allowlist_contains(al, Unwrap(holder_script))
        THEN "holder output not to wallet or in allowlist"
        ELSE OK

\* The validator without the check of the holder output's destination.
validate_mutual_close_tx_any_destination(al, su, es, to_holder_value_sat, to_counterparty_value_sat, holder_script, counterparty_script, holder_wallet_path_hint) ==
    IF IsNone(es.current_holder_commit_info)
    THEN "current_holder_commit_info missing"
    ELSE IF IsNone(es.current_counterparty_commit_info)
    THEN "current_counterparty_commit_info missing"
    ELSE
    LET holder_info == Unwrap(es.current_holder_commit_info)
        counterparty_info == Unwrap(es.current_counterparty_commit_info)
        sum_outputs == to_holder_value_sat + to_counterparty_value_sat
        fee == validate_fee(su.channel_value_sat, sum_outputs)
    IN  IF to_holder_value_sat > 0 /\ IsNone(holder_script)
        THEN "missing holder_script"
        ELSE IF to_counterparty_value_sat > 0 /\ IsNone(counterparty_script)
        THEN "missing counterparty_script"
        ELSE IF IsSome(su.holder_shutdown_script) /\ to_holder_value_sat > 0
                /\ holder_script # su.holder_shutdown_script
        THEN "holder_script doesn't match upfront holder_shutdown_script"
        ELSE IF ~htlcs_is_empty(holder_info) \/ ~htlcs_is_empty(counterparty_info)
        THEN "cannot close with pending htlcs"
        ELSE IF fee # OK THEN fee
        ELSE IF su.is_outbound
                /\ outside_epsilon_range(to_counterparty_value_sat,
                                         counterparty_info.to_broadcaster_value_sat)[1]
        THEN "to_counterparty_value outside counterparty_info.broadcaster_value_sat"
        ELSE IF su.is_outbound
                /\ outside_epsilon_range(to_counterparty_value_sat,
                                         holder_info.to_countersigner_value_sat)[1]
        THEN "to_counterparty_value outside holder_info.countersigner_value_sat"
        ELSE IF ~su.is_outbound
                /\ outside_epsilon_range(to_holder_value_sat,
                                         holder_info.to_broadcaster_value_sat)[1]
        THEN "to_holder_value outside holder_info.broadcaster_value_sat"
        ELSE IF ~su.is_outbound
                /\ outside_epsilon_range(to_holder_value_sat,
                                         counterparty_info.to_countersigner_value_sat)[1]
        THEN "to_holder_value outside counterparty_info.countersigner_value_sat"
        ELSE OK

validate_mutual_close_tx(al, su, es, to_holder_value_sat, to_counterparty_value_sat, holder_script, counterparty_script, holder_wallet_path_hint) ==
    IF IsNone(es.current_holder_commit_info)
    THEN "current_holder_commit_info missing"
    ELSE IF IsNone(es.current_counterparty_commit_info)
    THEN "current_counterparty_commit_info missing"
    ELSE
    LET holder_info == Unwrap(es.current_holder_commit_info)
        counterparty_info == Unwrap(es.current_counterparty_commit_info)
        sum_outputs == to_holder_value_sat + to_counterparty_value_sat
        fee == validate_fee(su.channel_value_sat, sum_outputs)
    IN  IF to_holder_value_sat > 0 /\ IsNone(holder_script)
        THEN "missing holder_script"
        ELSE IF to_counterparty_value_sat > 0 /\ IsNone(counterparty_script)
        THEN "missing counterparty_script"
        ELSE IF IsSome(su.holder_shutdown_script) /\ to_holder_value_sat > 0
                /\ holder_script # su.holder_shutdown_script
        THEN "holder_script doesn't match upfront holder_shutdown_script"
        ELSE IF ~htlcs_is_empty(holder_info) \/ ~htlcs_is_empty(counterparty_info)
        THEN "cannot close with pending htlcs"
        ELSE IF fee # OK THEN fee
        ELSE IF su.is_outbound
                /\ outside_epsilon_range(to_counterparty_value_sat,
                                         counterparty_info.to_broadcaster_value_sat)[1]
        THEN "to_counterparty_value outside counterparty_info.broadcaster_value_sat"
        ELSE IF su.is_outbound
                /\ outside_epsilon_range(to_counterparty_value_sat,
                                         holder_info.to_countersigner_value_sat)[1]
        THEN "to_counterparty_value outside holder_info.countersigner_value_sat"
        ELSE IF ~su.is_outbound
                /\ outside_epsilon_range(to_holder_value_sat,
                                         holder_info.to_broadcaster_value_sat)[1]
        THEN "to_holder_value outside holder_info.broadcaster_value_sat"
        ELSE IF ~su.is_outbound
                /\ outside_epsilon_range(to_holder_value_sat,
                                         counterparty_info.to_countersigner_value_sat)[1]
        THEN "to_holder_value outside counterparty_info.countersigner_value_sat"
        ELSE IF IsSome(holder_script)
                /\ ~can_spend(holder_wallet_path_hint, Unwrap(holder_script))
                /\ ~allowlist_contains(al, Unwrap(holder_script))
        THEN "holder output not to wallet or in allowlist"
        ELSE OK

ValidateArgs(to_holder, to_counterparty, holder_script, counterparty_script, path) ==
    [ to_holder_value_sat       |-> to_holder,
      to_counterparty_value_sat |-> to_counterparty,
      holder_script             |-> holder_script,
      counterparty_script       |-> counterparty_script,
      wallet_path               |-> path ]

try_mutual_close_args(al, su, es, args) ==
    validate_mutual_close_tx(al, su, es, args.to_holder_value_sat,
                             args.to_counterparty_value_sat, args.holder_script,
                             args.counterparty_script, args.wallet_path)

\* The resolution that reports the error of the second-tried assignment.
decode_and_validate_mutual_close_tx_unlikely_error(al, su, es, tx, wallet_paths) ==
    IF Len(tx.output) > 2 THEN "invalid number of outputs"
    ELSE IF IsNone(es.current_holder_commit_info)
    THEN "current_holder_commit_info missing"
    ELSE IF IsNone(es.current_counterparty_commit_info)
    THEN "current_counterparty_commit_info missing"
    ELSE IF Len(tx.output) = 0 THEN "panic: index out of bounds"
    ELSE
    LET holder_value == minimum_to_holder_value(es, policy.epsilon_sat)
        cparty_value == minimum_to_counterparty_value(es, policy.epsilon_sat)
        holder_value_is_larger == OptionGreater(holder_value, cparty_value)
        o1 == tx.output[1]
        o2 == tx.output[2]
        holders_output == ValidateArgs(o1.value, 0, Some(o1.script_pubkey), None,
                                       wallet_paths[1])
        cpartys_output == ValidateArgs(0, o1.value, None, Some(o1.script_pubkey),
                                       << >>)
        holder_first == ValidateArgs(o1.value, o2.value, Some(o1.script_pubkey),
                                     Some(o2.script_pubkey), wallet_paths[1])
        cparty_first == ValidateArgs(o2.value, o1.value, Some(o2.script_pubkey),
                                     Some(o1.script_pubkey), wallet_paths[2])
        likely_args ==
            IF Len(tx.output) = 1
            THEN IF holder_value_is_larger THEN holders_output ELSE cpartys_output
            ELSE IF holder_value_is_larger THEN cparty_first ELSE holder_first
        unlikely_args ==
            IF Len(tx.output) = 1
            THEN IF holder_value_is_larger THEN cpartys_output ELSE holders_output
            ELSE IF holder_value_is_larger THEN holder_first ELSE cparty_first
        likely_rv == try_mutual_close_args(al, su, es, likely_args)
        unlikely_rv == try_mutual_close_args(al, su, es, unlikely_args)
        good_args == IF likely_rv = OK THEN likely_args ELSE unlikely_args
        recomposed == built_closing_outputs(good_args.to_holder_value_sat,
                                            good_args.to_counterparty_value_sat,
                                            good_args.holder_script,
                                            good_args.counterparty_script)
    IN  IF likely_rv # OK /\ unlikely_rv # OK THEN unlikely_rv
        ELSE IF recomposed # tx.output THEN "recomposed tx mismatch"
        ELSE OK

decode_and_validate_mutual_close_tx(al, su, es, tx, wallet_paths) ==
    IF Len(tx.output) > 2 THEN "invalid number of outputs"
    ELSE IF IsNone(es.current_holder_commit_info)
    THEN "current_holder_commit_info missing"
    ELSE IF IsNone(es.current_counterparty_commit_info)
    THEN "current_counterparty_commit_info missing"
    ELSE IF Len(tx.output) = 0 THEN "panic: index out of bounds"
    ELSE
    LET holder_value == minimum_to_holder_value(es, policy.epsilon_sat)
        cparty_value == minimum_to_counterparty_value(es, policy.epsilon_sat)
        holder_value_is_larger == OptionGreater(holder_value, cparty_value)
        o1 == tx.output[1]
        o2 == tx.output[2]
        holders_output == ValidateArgs(o1.value, 0, Some(o1.script_pubkey), None,
                                       wallet_paths[1])
        cpartys_output == ValidateArgs(0, o1.value, None, Some(o1.script_pubkey),
                                       << >>)
        holder_first == ValidateArgs(o1.value, o2.value, Some(o1.script_pubkey),
                                     Some(o2.script_pubkey), wallet_paths[1])
        cparty_first == ValidateArgs(o2.value, o1.value, Some(o2.script_pubkey),
                                     Some(o1.script_pubkey), wallet_paths[2])
        likely_args ==
            IF Len(tx.output) = 1
            THEN IF holder_value_is_larger THEN holders_output ELSE cpartys_output
            ELSE IF holder_value_is_larger THEN cparty_first ELSE holder_first
        unlikely_args ==
            IF Len(tx.output) = 1
            THEN IF holder_value_is_larger THEN cpartys_output ELSE holders_output
            ELSE IF holder_value_is_larger THEN holder_first ELSE cparty_first
        likely_rv == try_mutual_close_args(al, su, es, likely_args)
        unlikely_rv == try_mutual_close_args(al, su, es, unlikely_args)
        good_args == IF likely_rv = OK THEN likely_args ELSE unlikely_args
        recomposed == built_closing_outputs(good_args.to_holder_value_sat,
                                            good_args.to_counterparty_value_sat,
                                            good_args.holder_script,
                                            good_args.counterparty_script)
    IN  IF likely_rv # OK /\ unlikely_rv # OK THEN likely_rv
        ELSE IF recomposed # tx.output THEN "recomposed tx mismatch"
        ELSE OK

(***************************************************************************)
(* Channel operations on a Ready channel.  Each validates against the      *)
(* current EnforcementState and advances it only after every check.        *)
(***************************************************************************)
validate_channel_value(su) ==
    IF su.channel_value_sat > policy.max_channel_size_sat
    THEN "channel value too large"
    ELSE OK

Channel_get_per_commitment_point(es, commitment_number) ==
    IF commitment_number > es.next_holder_commit_num
    THEN "get_per_commitment_point: commitment_number invalid"
    ELSE OK

\* The secret released one commitment early.
Channel_get_per_commitment_secret_early(es, commitment_number) ==
    IF commitment_number + 1 > es.next_holder_commit_num
    THEN "get_per_commitment_secret: can't revoke commitment_number"
    ELSE OK

Channel_get_per_commitment_secret(es, commitment_number) ==
    IF commitment_number + 2 > es.next_holder_commit_num
    THEN "get_per_commitment_secret: can't revoke commitment_number"
    ELSE OK

Channel_sign_counterparty_commitment_tx(es, su, commit_num, point, info) ==
    LET value == validate_channel_value(su)
        valid == validate_counterparty_commitment_tx(es, commit_num, point, su,
                                                     cstate, info)
    IN  IF value # OK THEN [ rv |-> value, es |-> es ]
        ELSE IF valid # OK THEN [ rv |-> valid, es |-> es ]
        ELSE set_next_counterparty_commit_num(es, commit_num + 1, point, info)

Channel_sign_holder_commitment_tx(es, su, commit_num, info) ==
    LET value == validate_channel_value(su)
        valid == validate_holder_commitment_tx(es, commit_num, 0, su, cstate, info)
    IN  IF value # OK THEN [ rv |-> value, es |-> es ]
        ELSE [ rv |-> valid, es |-> es ]

Channel_validate_holder_commitment_tx(es, su, commit_num, info) ==
    LET value == validate_channel_value(su)
        point == Channel_get_per_commitment_point(es, commit_num)
        valid == validate_holder_commitment_tx(es, commit_num, 0, su, cstate, info)
    IN  IF value # OK THEN [ rv |-> value, es |-> es ]
        ELSE IF point # OK THEN [ rv |-> point, es |-> es ]
        ELSE IF valid # OK THEN [ rv |-> valid, es |-> es ]
        ELSE set_next_holder_commit_num(es, commit_num + 1, info)

Channel_validate_counterparty_revocation(es, revoke_num, old_secret) ==
    LET valid == validate_counterparty_revocation(es, revoke_num, old_secret)
    IN  IF valid # OK THEN [ rv |-> valid, es |-> es ]
        ELSE set_next_counterparty_revoke_num(es, revoke_num + 1)

\* The operation signing the close without recording it.
Channel_sign_mutual_close_tx_noflag(es, su, al, tx, opaths) ==
    LET valid == decode_and_validate_mutual_close_tx(al, su, es, tx, opaths)
    IN  IF Len(opaths) # Len(tx.output)
        THEN [ rv |-> "invalid argument: bad opath len", es |-> es ]
        ELSE [ rv |-> valid, es |-> es ]

Channel_sign_mutual_close_tx(es, su, al, tx, opaths) ==
    LET valid == decode_and_validate_mutual_close_tx(al, su, es, tx, opaths)
    IN  IF Len(opaths) # Len(tx.output)
        THEN [ rv |-> "invalid argument: bad opath len", es |-> es ]
        ELSE IF valid # OK THEN [ rv |-> valid, es |-> es ]
        ELSE [ rv |-> OK, es |-> [ es EXCEPT !.mutual_close_signed = TRUE ] ]

(***************************************************************************)
(* Node allowlist.  An address string parses to a network and a script,    *)
(* or does not parse.                                                      *)
(***************************************************************************)
node_network == "testnet"

parse_address(addrstr) ==
    CASE addrstr = "tb1qallow" -> Some([ network |-> "testnet", script_pubkey |-> 50 ])
      [] addrstr = "bc1qmain"  -> Some([ network |-> "bitcoin", script_pubkey |-> 51 ])
      [] OTHER                 -> None

\* The first error of the address conversion, if any.
RECURSIVE allowlist_addresses(_, _)
allowlist_addresses(list, i) ==
    IF i > Len(list) THEN OK
    ELSE IF IsNone(parse_address(list[i]))
    THEN "invalid argument: parse address failed"
    ELSE IF Unwrap(parse_address(list[i])).network # node_network
    THEN "invalid argument: network mismatch"
    ELSE allowlist_addresses(list, i + 1)

allowlist_scripts(list) ==
    { Unwrap(parse_address(list[i])).script_pubkey : i \in 1..Len(list) }

\* The scripts of the addresses of the list before its first bad one.
allowlist_scripts_before_error(list) ==
    { Unwrap(parse_address(list[i])).script_pubkey :
        i \in { j \in 1..Len(list) : allowlist_addresses(SubSeq(list, 1, j), 1) = OK } }

\* add_allowlist inserting each address as it is converted.
add_allowlist_one_by_one(al, addlist, persist_ok) ==
    LET addresses == allowlist_addresses(addlist, 1)
    IN  IF addresses # OK
        THEN [ rv |-> addresses, al |-> al \cup allowlist_scripts_before_error(addlist) ]
        ELSE IF ~persist_ok
        THEN [ rv |-> "internal: persist failed",
               al |-> al \cup allowlist_scripts(addlist) ]
        ELSE [ rv |-> OK, al |-> al \cup allowlist_scripts(addlist) ]

\* <<result, allowlist left in memory>>
add_allowlist(al, addlist, persist_ok) ==
    LET addresses == allowlist_addresses(addlist, 1)
    IN  IF addresses # OK THEN [ rv |-> addresses, al |-> al ]
        ELSE IF ~persist_ok
        THEN [ rv |-> "internal: persist failed",
               al |-> al \cup allowlist_scripts(addlist) ]
        ELSE [ rv |-> OK, al |-> al \cup allowlist_scripts(addlist) ]

remove_allowlist(al, rmlist, persist_ok) ==
    LET addresses == allowlist_addresses(rmlist, 1)
    IN  IF addresses # OK THEN [ rv |-> addresses, al |-> al ]
        ELSE IF ~persist_ok
        THEN [ rv |-> "internal: persist failed",
               al |-> al \ allowlist_scripts(rmlist) ]
        ELSE [ rv |-> OK, al |-> al \ allowlist_scripts(rmlist) ]

(***************************************************************************)
(* Requests the front-end may send.                                        *)
(***************************************************************************)
\* Balances of a commitment: to the holder, to the counterparty, and HTLCs.
Shapes ==
    { [ h |-> 2949000, c |-> 0,       htlcs |-> << >> ],
      [ h |-> 1949000, c |-> 1000000, htlcs |-> << >> ],
      [ h |-> 1949000, c |-> 1000000, htlcs |-> << HTLCInfo2(10000, 1, 1100) >> ] }

HolderInfos(su) ==
    { CommitmentInfo2(FALSE, s.h, s.c, su.counterparty_selected_contest_delay,
                      s.htlcs, << >>) : s \in Shapes }

CounterpartyInfos(su) ==
    { CommitmentInfo2(TRUE, s.c, s.h, su.holder_selected_contest_delay,
                      << >>, s.htlcs) : s \in Shapes }

WalletPath == << 7 >>

CloseRequests ==
    { [ tx |-> [ output |-> << TxOut(2949000, native_script(WalletPath)) >> ],
        opaths |-> << WalletPath >> ],
      [ tx |-> [ output |-> << TxOut(1000000, 60),
                               TxOut(1949000, native_script(WalletPath)) >> ],
        opaths |-> << << >>, WalletPath >> ],
      [ tx |-> [ output |-> << TxOut(1000000, 60), TxOut(1949000, 50) >> ],
        opaths |-> << << >>, << >> >> ],
      [ tx |-> [ output |-> << TxOut(1949000, native_script(WalletPath)),
                               TxOut(1000000, 60) >> ],
        opaths |-> << WalletPath, << >> >> ],
      [ tx |-> [ output |-> << TxOut(1000000, 60),
                               TxOut(1949000, native_script(WalletPath)) >> ],
        opaths |-> << WalletPath >> ],
      [ tx |-> [ output |-> << TxOut(1000000, 60), TxOut(949000, 50),
                               TxOut(1000000, native_script(WalletPath)) >> ],
        opaths |-> << << >>, << >>, WalletPath >> ],
      [ tx |-> [ output |-> << >> ], opaths |-> << >> ] }

Setups ==
    { [ channel_value_sat                   |-> 3000000,
        push_value_msat                     |-> 0,
        is_outbound                         |-> outbound,
        holder_selected_contest_delay       |-> 6,
        counterparty_selected_contest_delay |-> 7,
        holder_shutdown_script              |-> None ] : outbound \in BOOLEAN }

Request(op, num, key, info, tx, rv) ==
    [ op |-> op, num |-> num, key |-> key, info |-> info, tx |-> tx, rv |-> rv ]

(***************************************************************************)
(* The state machine.                                                      *)
(***************************************************************************)
Init ==
    /\ setup \in Setups
    /\ estate = EnforcementState_new
    /\ allowlist = {}
    /\ last = Request("ready_channel", 0, 0, None, None, OK)
    /\ cp_signed = {}
    /\ Node_new

SignCounterpartyCommitmentTx ==
    \E commit_num \in CommitNums, point \in Points, info \in CounterpartyInfos(setup) :
        LET r == Channel_sign_counterparty_commitment_tx(estate, setup, commit_num,
                                                         point, info)
        IN  /\ r.es.next_counterparty_commit_num <= MaxCommitNum
            /\ estate' = r.es
            /\ last' = Request("sign_counterparty_commitment_tx", commit_num, point,
                               Some(info), None, r.rv)
            /\ cp_signed' = IF r.rv = OK
                            THEN cp_signed \cup { << commit_num, point >> }
                            ELSE cp_signed
            /\ UNCHANGED << setup, allowlist, node_vars >>

SignHolderCommitmentTx ==
    \E commit_num \in CommitNums, info \in HolderInfos(setup) :
        LET r == Channel_sign_holder_commitment_tx(estate, setup, commit_num, info)
        IN  /\ estate' = r.es
            /\ last' = Request("sign_holder_commitment_tx", commit_num, 0,
                               Some(info), None, r.rv)
            /\ UNCHANGED << setup, allowlist, cp_signed, node_vars >>

ValidateHolderCommitmentTx ==
    \E commit_num \in CommitNums, info \in HolderInfos(setup) :
        LET r == Channel_validate_holder_commitment_tx(estate, setup, commit_num, info)
        IN  /\ r.es.next_holder_commit_num <= MaxCommitNum
            /\ estate' = r.es
            /\ last' = Request("validate_holder_commitment_tx", commit_num, 0,
                               Some(info), None, r.rv)
            /\ UNCHANGED << setup, allowlist, cp_signed, node_vars >>

ValidateCounterpartyRevocation ==
    \E revoke_num \in CommitNums, secret \in Secrets :
        LET r == Channel_validate_counterparty_revocation(estate, revoke_num, secret)
        IN  /\ estate' = r.es
            /\ last' = Request("validate_counterparty_revocation", revoke_num, secret,
                               None, None, r.rv)
            /\ UNCHANGED << setup, allowlist, cp_signed, node_vars >>

GetPerCommitmentSecret ==
    \E commitment_number \in CommitNums :
        /\ last' = Request("get_per_commitment_secret", commitment_number, 0, None,
                           None, Channel_get_per_commitment_secret(estate,
                                                                   commitment_number))
        /\ UNCHANGED << setup, estate, allowlist, cp_signed, node_vars >>

SignMutualCloseTx ==
    \E req \in CloseRequests :
        LET r == Channel_sign_mutual_close_tx(estate, setup, allowlist, req.tx,
                                              req.opaths)
        IN  /\ estate' = r.es
            /\ last' = Request("sign_mutual_close_tx", 0, 0, None, Some(req), r.rv)
            /\ UNCHANGED << setup, allowlist, cp_signed, node_vars >>

Next ==
    \/ SignCounterpartyCommitmentTx
    \/ SignHolderCommitmentTx
    \/ ValidateHolderCommitmentTx
    \/ ValidateCounterpartyRevocation
    \/ GetPerCommitmentSecret
    \/ SignMutualCloseTx

Spec == Init /\ [][Next]_vars

(***************************************************************************)
(* Properties.  A step's request and result are in last'; estate is the    *)
(* EnforcementState the request met and estate' the one it left.           *)
(***************************************************************************)
HolderCommitmentOps == { "sign_holder_commitment_tx", "validate_holder_commitment_tx" }

\* C1: on a Ready channel get_per_commitment_secret(n) succeeds only if
\* next_holder_commit_num >= n + 2; while next_holder_commit_num < n + 2 the
\* request fails and releases nothing.
C1_SecretOnlyAfterRevocation ==
    last.op = "get_per_commitment_secret" =>
        /\ last.rv = OK => estate.next_holder_commit_num >= last.num + 2
        /\ estate.next_holder_commit_num < last.num + 2 => last.rv # OK

C1_Witness ==
    /\ last.op = "get_per_commitment_secret"
    /\ last.rv = OK
    /\ estate.next_holder_commit_num = last.num + 2

\* C2: once next_holder_commit_num >= n + 2, every request to sign or to
\* validate holder commitment n fails.
C2_NoRevokedHolderCommitment ==
    [][ ( /\ last'.op \in HolderCommitmentOps
          /\ estate.next_holder_commit_num >= last'.num + 2 )
        => last'.rv # OK ]_vars

C2_Witness ==
    /\ last.op = "sign_holder_commitment_tx"
    /\ estate.next_holder_commit_num >= last.num + 2
    /\ last.rv = "can't sign revoked commitment_number"

\* C3: sign_counterparty_commitment_tx for commit_num is accepted only if
\* commit_num <= next_counterparty_revoke_num + 1: a request beyond that is
\* refused by the validator, and no commitment the signer has signed is two
\* ahead of the last revoked one.
C3_NeverTwoAheadOfRevoked ==
    [][ /\ ( /\ last'.op = "sign_counterparty_commitment_tx"
             /\ last'.num > estate.next_counterparty_revoke_num + 1 )
           => /\ last'.rv # OK
              /\ validate_counterparty_commitment_tx(
                     estate, last'.num, last'.key, setup, cstate,
                     Unwrap(last'.info)) # OK
        /\ \A signed \in cp_signed' :
               signed[1] <= estate'.next_counterparty_revoke_num + 1 ]_vars

C3_Witness ==
    /\ last.op = "sign_counterparty_commitment_tx"
    /\ last.num = estate.next_counterparty_revoke_num + 2
    /\ last.rv = "invalid attempt to sign counterparty commit_num"
    /\ \E signed \in cp_signed : signed[1] = estate.next_counterparty_revoke_num + 1

\* C4: validate_counterparty_revocation(n, s) succeeds only if pubkey(s) is
\* the point stored when counterparty commitment n was signed; with another
\* secret for a revocable n it fails with a commit point mismatch, and
\* next_counterparty_revoke_num does not advance.
C4_RevocationMatchesSignedPoint ==
    [][ last'.op = "validate_counterparty_revocation" =>
          /\ last'.rv = OK =>
                 /\ << last'.num, Pubkey(last'.key) >> \in cp_signed
                 /\ Some(Pubkey(last'.key))
                        = get_previous_counterparty_point(estate, last'.num)
          /\ << last'.num, Pubkey(last'.key) >> \notin cp_signed =>
                 /\ last'.rv # OK
                 /\ estate'.next_counterparty_revoke_num
                        = estate.next_counterparty_revoke_num
                 /\ ( /\ last'.num \in { estate.next_counterparty_revoke_num,
                                         estate.next_counterparty_revoke_num - 1 }
                      /\ IsSome(get_previous_counterparty_point(estate, last'.num)) )
                    => last'.rv = "revocation commit point mismatch" ]_vars

C4_Witness ==
    /\ last.op = "validate_counterparty_revocation"
    /\ last.rv = "revocation commit point mismatch"
    /\ last.num = estate.next_counterparty_revoke_num
    /\ \E signed \in cp_signed : signed[1] = last.num /\ signed[2] # Pubkey(last.key)

StateChangingOps ==
    { "sign_counterparty_commitment_tx", "validate_holder_commitment_tx",
      "validate_counterparty_revocation", "sign_mutual_close_tx" }

\* C7: whenever sign_counterparty_commitment_tx, validate_holder_commitment_tx,
\* validate_counterparty_revocation or sign_mutual_close_tx returns an error,
\* every field of the EnforcementState has the value it had before the call.
C7_ErrorLeavesStateUnchanged ==
    [][ (last'.op \in StateChangingOps /\ last'.rv # OK) => estate' = estate ]_vars

\* A request the validator accepts and the state transition then refuses.
C7_Witness ==
    /\ last.op = "sign_counterparty_commitment_tx"
    /\ last.rv = "set_next_counterparty_commit_num: invalid progression"
    /\ estate.next_counterparty_commit_num = 2

\* C8: a holder commitment submitted for commit_num with
\* commit_num + 1 = next_holder_commit_num is accepted if and only if its
\* info equals the stored current_holder_commit_info: the identical request
\* succeeds, one differing in any value fails.
C8_HolderRetryNeedsSameInfo ==
    [][ ( /\ last'.op \in HolderCommitmentOps
          /\ last'.num + 1 = estate.next_holder_commit_num )
        => ( last'.rv = OK <=> last'.info = estate.current_holder_commit_info ) ]_vars

C8_Witness ==
    /\ last.op = "sign_holder_commitment_tx"
    /\ last.num + 1 = estate.next_holder_commit_num
    /\ last.info # estate.current_holder_commit_info
    /\ last.rv = "retry holder commitment with changed info"

\* C9: sign_counterparty_commitment_tx for commit_num with
\* commit_num + 1 = next_counterparty_commit_num is accepted only if the
\* point equals the stored current point and the info the stored current
\* info; with any difference the validator refuses it.
C9_CounterpartyRetryNeedsSamePointAndInfo ==
    [][ ( /\ last'.op = "sign_counterparty_commitment_tx"
          /\ last'.num + 1 = estate.next_counterparty_commit_num
          /\ \/ Some(last'.key) # estate.current_counterparty_point
             \/ last'.info # estate.current_counterparty_commit_info )
        => /\ last'.rv # OK
           /\ validate_counterparty_commitment_tx(
                  estate, last'.num, last'.key, setup, cstate,
                  Unwrap(last'.info)) # OK ]_vars

C9_Witness ==
    /\ last.op = "sign_counterparty_commitment_tx"
    /\ last.num + 1 = estate.next_counterparty_commit_num
    /\ Some(last.key) # estate.current_counterparty_point
    /\ last.info = estate.current_counterparty_commit_info
    /\ last.rv = "retry of sign_counterparty_commitment with changed point"

\* set_next_counterparty_commit_num called with the current number: the
\* stored point and info make it a retry that changes nothing, others fail.
RetryOfCurrent(point, info) ==
    set_next_counterparty_commit_num(estate, estate.next_counterparty_commit_num,
                                     point, info)

SameAsStored(point, info) ==
    /\ Some(point) = estate.current_counterparty_point
    /\ Some(info) = estate.current_counterparty_commit_info

RevokeNums == 1..(MaxCommitNum + 1)

\* C11 as stated: set_next_counterparty_revoke_num(new) with new >= 1 succeeds
\* exactly when new = next_counterparty_revoke_num, or
\* new = next_counterparty_revoke_num + 1 and new <= next_counterparty_commit_num;
\* every other value fails and leaves the counters unchanged.
C11_RevokeUpToCommit ==
    \A new \in RevokeNums :
        LET r == set_next_counterparty_revoke_num(estate, new)
        IN  /\ r.rv = OK <=>
                   \/ new = estate.next_counterparty_revoke_num
                   \/ /\ new = estate.next_counterparty_revoke_num + 1
                      /\ new <= estate.next_counterparty_commit_num
            /\ r.rv # OK => r.es = estate

\* C11 amended: set_next_counterparty_revoke_num(new) with new >= 1 succeeds
\* exactly when new = next_counterparty_revoke_num, or
\* new = next_counterparty_revoke_num + 1 and
\* new + 1 <= next_counterparty_commit_num (the commitment after the revoked
\* one is already signed); every other value fails and leaves the state
\* unchanged.
C11_RevokeBelowCommit ==
    \A new \in RevokeNums :
        LET r == set_next_counterparty_revoke_num(estate, new)
        IN  /\ r.rv = OK <=>
                   \/ new = estate.next_counterparty_revoke_num
                   \/ /\ new = estate.next_counterparty_revoke_num + 1
                      /\ new + 1 <= estate.next_counterparty_commit_num
            /\ r.rv # OK => r.es = estate

\* The revocation of the newest commitment: the validator accepts the secret,
\* the setter refuses the number.
C11_Witness ==
    /\ last.op = "validate_counterparty_revocation"
    /\ last.num = estate.next_counterparty_revoke_num
    /\ last.num + 1 = estate.next_counterparty_commit_num
    /\ validate_counterparty_revocation(estate, last.num, last.key) = OK
    /\ last.rv = "set_next_counterparty_revoke_num: too large relative to next_counterparty_commit_num"

\* C12: validate_counterparty_revocation(n, s) is idempotent: right after it
\* has succeeded, the same call (n, s) succeeds again and leaves
\* next_counterparty_revoke_num and every other field as they are.
C12_RevocationIdempotent ==
    ( /\ last.op = "validate_counterparty_revocation"
      /\ last.rv = OK )
    => Channel_validate_counterparty_revocation(estate, last.num, last.key)
           = [ rv |-> OK, es |-> estate ]

C12_Witness ==
    /\ last.op = "validate_counterparty_revocation"
    /\ last.rv = OK
    /\ estate.next_counterparty_revoke_num = last.num + 1
    /\ estate.next_counterparty_commit_num = last.num + 2
    /\ Channel_validate_counterparty_revocation(estate, last.num, last.key).rv = OK

\* C13: once mutual_close_signed is true, validating a new holder commitment
\* (commit_num = next_holder_commit_num) fails and next_holder_commit_num
\* does not advance.
C13_NoNewHolderCommitmentAfterClose ==
    [][ ( /\ last'.op = "validate_holder_commitment_tx"
          /\ estate.mutual_close_signed
          /\ last'.num = estate.next_holder_commit_num )
        => /\ last'.rv # OK
           /\ estate'.next_holder_commit_num = estate.next_holder_commit_num ]_vars

C13_Witness ==
    /\ last.op = "validate_holder_commitment_tx"
    /\ estate.mutual_close_signed
    /\ last.num = estate.next_holder_commit_num
    /\ last.rv = "mutual close already signed"

\* C14 as stated: once mutual_close_signed is true, every
\* sign_counterparty_commitment_tx request that would advance
\* next_counterparty_commit_num fails.
C14_NoNewCounterpartyCommitmentAfterClose ==
    [][ ( /\ last'.op = "sign_counterparty_commitment_tx"
          /\ estate.mutual_close_signed
          /\ last'.num = estate.next_counterparty_commit_num )
        => /\ last'.rv # OK
           /\ estate'.next_counterparty_commit_num
                  = estate.next_counterparty_commit_num ]_vars

\* C14 amended: mutual_close_signed has no bearing on
\* sign_counterparty_commitment_tx: a request meets the result and the state
\* change it would meet with the flag unset, so a new counterparty commitment
\* is still signed after a mutual close when the earlier one is revoked or
\* is the first.
C14_CloseDoesNotStopCounterpartyCommitments ==
    [][ last'.op = "sign_counterparty_commitment_tx" =>
          LET open == [ estate EXCEPT !.mutual_close_signed = FALSE ]
              r == Channel_sign_counterparty_commitment_tx(
                       open, setup, last'.num, last'.key, Unwrap(last'.info))
          IN  /\ last'.rv = r.rv
              /\ estate' = [ r.es EXCEPT
                             !.mutual_close_signed = estate.mutual_close_signed ]
      ]_vars

\* A commitment with an HTLC is the current one of a closed channel: it was
\* signed after the close, which needs both current commitments free of HTLCs.
C14_Witness ==
    /\ last.op = "sign_counterparty_commitment_tx"
    /\ last.rv = OK
    /\ estate.mutual_close_signed
    /\ last.num + 1 = estate.next_counterparty_commit_num
    /\ last.info = estate.current_counterparty_commit_info
    /\ ~htlcs_is_empty(Unwrap(estate.current_counterparty_commit_info))

\* C15: mutual_close_signed is false until a sign_mutual_close_tx call
\* succeeds, is true right after every successful sign_mutual_close_tx, and
\* once true stays true under every later operation.
C15_MutualCloseSignedLatches ==
    /\ ~estate.mutual_close_signed
    /\ [][ /\ estate'.mutual_close_signed # estate.mutual_close_signed
              => (last'.op = "sign_mutual_close_tx" /\ last'.rv = OK)
           /\ (last'.op = "sign_mutual_close_tx" /\ last'.rv = OK)
              => estate'.mutual_close_signed
           /\ estate.mutual_close_signed => estate'.mutual_close_signed ]_vars

\* A closed channel that has served a request other than a close since.
C15_Witness ==
    /\ estate.mutual_close_signed
    /\ last.op = "validate_counterparty_revocation"
    /\ last.rv = OK

\* Both current commitments are stored and neither carries an HTLC.
NoPendingHtlcs(es) ==
    /\ IsSome(es.current_holder_commit_info)
    /\ IsSome(es.current_counterparty_commit_info)
    /\ htlcs_is_empty(Unwrap(es.current_holder_commit_info))
    /\ htlcs_is_empty(Unwrap(es.current_counterparty_commit_info))

\* C16: a mutual close is accepted only if current_holder_commit_info and
\* current_counterparty_commit_info are both present and both have no
\* offered and no received HTLCs; otherwise it is rejected and the channel
\* is not marked closed.
C16_CloseNeedsNoPendingHtlcs ==
    [][ last'.op = "sign_mutual_close_tx" =>
          /\ last'.rv = OK => NoPendingHtlcs(estate)
          /\ ~NoPendingHtlcs(estate) =>
                 /\ last'.rv # OK
                 /\ estate'.mutual_close_signed = estate.mutual_close_signed ]_vars

C16_Witness ==
    /\ last.op = "sign_mutual_close_tx"
    /\ last.rv = "cannot close with pending htlcs"
    /\ ~estate.mutual_close_signed
    /\ IsSome(estate.current_holder_commit_info)
    /\ IsSome(estate.current_counterparty_commit_info)
    /\ ~htlcs_is_empty(Unwrap(estate.current_counterparty_commit_info))

\* Results that are a panic of the signer, not an error returned to the caller.
IsPanic(rv) ==
    rv \in { "panic: index out of bounds", "panic: current_holder_commit_info" }

\* C19 as stated: mutual-close validation accepts only transactions with
\* exactly 1 or 2 outputs; a transaction with any other number of outputs
\* (zero, or three or more) is rejected with an error result.
C19_OnlyOneOrTwoOutputs ==
    last.op = "sign_mutual_close_tx" =>
        LET outputs == Len(Unwrap(last.tx).tx.output)
        IN  /\ last.rv = OK => outputs \in { 1, 2 }
            /\ outputs \notin { 1, 2 } => (last.rv # OK /\ ~IsPanic(last.rv))

\* Three outputs are refused with an error; zero outputs are not.
C19_Witness ==
    /\ last.op = "sign_mutual_close_tx"
    /\ Len(Unwrap(last.tx).tx.output) = 0
    /\ IsPanic(last.rv)

(***************************************************************************)
(* A channel from new_channel on.  A slot holds a ChannelStub until         *)
(* ready_channel replaces it by a Channel with its setup and a fresh       *)
(* EnforcementState; the variable setup holds the stub until then.         *)
(***************************************************************************)
ChannelStub == [ nonce |-> "nonce1" ]

\* f is the result of the closure, which runs on a Ready channel only.
with_ready_channel_unchecked(slot, f) == f

with_ready_channel(slot, f) ==
    IF slot = ChannelStub THEN "invalid argument: channel not ready" ELSE f

ChannelStub_get_per_commitment_point(commitment_number) ==
    IF commitment_number # 0
    THEN "channel stub can only return point for commitment number zero"
    ELSE OK

ChannelStub_get_per_commitment_secret(commitment_number) ==
    "channel stub cannot release commitment secret"

\* Operations that reach the channel through with_ready_channel.
ReadyChannelOps ==
    { "sign_counterparty_commitment_tx", "sign_holder_commitment_tx",
      "validate_holder_commitment_tx", "validate_counterparty_revocation",
      "sign_mutual_close_tx" }

InitStub ==
    /\ setup = ChannelStub
    /\ estate = EnforcementState_new
    /\ allowlist = {}
    /\ last = Request("new_channel", 0, 0, None, None, OK)
    /\ cp_signed = {}
    /\ Node_new

StubGetPerCommitmentPoint ==
    \E commitment_number \in CommitNums :
        /\ setup = ChannelStub
        /\ last' = Request("get_per_commitment_point", commitment_number, 0, None,
                           None, ChannelStub_get_per_commitment_point(commitment_number))
        /\ UNCHANGED << setup, estate, allowlist, cp_signed, node_vars >>

StubGetPerCommitmentSecret ==
    \E commitment_number \in CommitNums :
        /\ setup = ChannelStub
        /\ last' = Request("get_per_commitment_secret", commitment_number, 0, None,
                           None, ChannelStub_get_per_commitment_secret(commitment_number))
        /\ UNCHANGED << setup, estate, allowlist, cp_signed, node_vars >>

StubReadyChannelOp ==
    \E op \in ReadyChannelOps, num \in CommitNums :
        /\ setup = ChannelStub
        /\ last' = Request(op, num, 0, None, None, with_ready_channel(setup, OK))
        /\ UNCHANGED << setup, estate, allowlist, cp_signed, node_vars >>

ReadyChannel ==
    \E su \in Setups :
        IF setup = ChannelStub
        THEN /\ setup' = su
             /\ estate' = EnforcementState_new
             /\ last' = Request("ready_channel", 0, 0, None, None, OK)
             /\ UNCHANGED << allowlist, cp_signed, node_vars >>
        ELSE /\ last' = Request("ready_channel", 0, 0, None, None,
                                "invalid argument: channel already ready")
             /\ UNCHANGED << setup, estate, allowlist, cp_signed, node_vars >>

NextStub ==
    \/ StubGetPerCommitmentPoint
    \/ StubGetPerCommitmentSecret
    \/ StubReadyChannelOp
    \/ ReadyChannel
    \/ (setup # ChannelStub /\ Next)

StubSpec == InitStub /\ [][NextStub]_vars

\* C20: on a Stub channel the per-commitment point is returned only for
\* commitment number 0, every get_per_commitment_secret request fails for
\* every commitment number, and every signing operation that requires a
\* Ready channel is rejected.
C20_StubOnlyGivesFirstPoint ==
    [][ setup = ChannelStub =>
          /\ last'.op = "get_per_commitment_point"
                => (last'.rv = OK <=> last'.num = 0)
          /\ last'.op = "get_per_commitment_secret" => last'.rv # OK
          /\ last'.op \in ReadyChannelOps
                => /\ last'.rv = "invalid argument: channel not ready"
                   /\ estate' = estate
                   /\ setup' = setup ]_vars

C20_Witness ==
    /\ setup = ChannelStub
    /\ last.op = "sign_counterparty_commitment_tx"
    /\ last.rv = "invalid argument: channel not ready"

(***************************************************************************)
(* Mutual close of an established channel.  The channel has its second     *)
(* commitments on both sides, without HTLCs; the two stored commitments    *)
(* need not agree on the balance.  The close is requested by its values    *)
(* and scripts (sign_mutual_close_tx_phase2), and the node's allowlist     *)
(* changes between requests.                                               *)
(***************************************************************************)
Channel_sign_mutual_close_tx_phase2(es, su, al, to_holder_value_sat, to_counterparty_value_sat, holder_script, counterparty_script, holder_wallet_path_hint) ==
    LET valid == validate_mutual_close_tx(al, su, es, to_holder_value_sat,
                                          to_counterparty_value_sat, holder_script,
                                          counterparty_script, holder_wallet_path_hint)
    IN  IF valid # OK THEN [ rv |-> valid, es |-> es ]
        ELSE [ rv |-> OK, es |-> [ es EXCEPT !.mutual_close_signed = TRUE ] ]

\* Balance of the side that pays no fee, as a stored commitment may have it.
StoredValues == { 1000000, 1015000 }

\* The fee payer's balance in a commitment that leaves a fee of 51000.
PayerValue(su, value) == su.channel_value_sat - value - 51000

EstablishedHolderInfo(su, value) ==
    IF su.is_outbound
    THEN CommitmentInfo2(FALSE, PayerValue(su, value), value,
                         su.counterparty_selected_contest_delay, << >>, << >>)
    ELSE CommitmentInfo2(FALSE, value, PayerValue(su, value),
                         su.counterparty_selected_contest_delay, << >>, << >>)

EstablishedCounterpartyInfo(su, value) ==
    IF su.is_outbound
    THEN CommitmentInfo2(TRUE, value, PayerValue(su, value),
                         su.holder_selected_contest_delay, << >>, << >>)
    ELSE CommitmentInfo2(TRUE, PayerValue(su, value), value,
                         su.holder_selected_contest_delay, << >>, << >>)

EstablishedStates(su) ==
    { [ next_holder_commit_num            |-> 2,
        next_counterparty_commit_num      |-> 2,
        next_counterparty_revoke_num      |-> 1,
        current_counterparty_point        |-> Some(Pubkey(2)),
        previous_counterparty_point       |-> Some(Pubkey(1)),
        current_holder_commit_info        |-> Some(EstablishedHolderInfo(su, hv)),
        current_counterparty_commit_info  |-> Some(EstablishedCounterpartyInfo(su, cv)),
        previous_counterparty_commit_info |-> None,
        mutual_close_signed               |-> FALSE ] : hv \in StoredValues, cv \in StoredValues }

\* Values a close may pay to the side that pays no fee: around the stored
\* ones, at the tolerance and one satoshi beyond it.
CloseValues == { 989999, 990000, 1005000, 1010000, 1010001, 1025000, 1025001 }

\* The holder's output of a close: to the wallet with its path, to the wallet
\* without a path, or to an address outside the wallet.
HolderDestinations ==
    { [ script |-> native_script(WalletPath), path |-> WalletPath ],
      [ script |-> native_script(WalletPath), path |-> << >> ],
      [ script |-> 50, path |-> << >> ] }

Phase2Requests(su) ==
    { ValidateArgs(IF su.is_outbound THEN su.channel_value_sat - value - 2000 ELSE value,
                   IF su.is_outbound THEN value ELSE su.channel_value_sat - value - 2000,
                   Some(dest.script), Some(60), dest.path) :
          value \in CloseValues, dest \in HolderDestinations }

AllowlistRequests ==
    { << "tb1qallow" >>, << "bc1qmain" >>, << "notanaddress" >>,
      << "tb1qallow", "bc1qmain" >>, << "tb1qallow", "notanaddress" >> }

InitClose ==
    /\ setup \in Setups
    /\ estate \in EstablishedStates(setup)
    /\ allowlist = {}
    /\ last = Request("ready_channel", 0, 0, None, None, OK)
    /\ cp_signed = {}
    /\ Node_new

SignMutualCloseTxPhase2 ==
    \E req \in Phase2Requests(setup) :
        LET r == Channel_sign_mutual_close_tx_phase2(
                     estate, setup, allowlist, req.to_holder_value_sat,
                     req.to_counterparty_value_sat, req.holder_script,
                     req.counterparty_script, req.wallet_path)
        IN  /\ estate' = r.es
            /\ last' = Request("sign_mutual_close_tx_phase2", 0, 0, None, Some(req), r.rv)
            /\ UNCHANGED << setup, allowlist, cp_signed, node_vars >>

AddAllowlist ==
    \E addlist \in AllowlistRequests, persist_ok \in BOOLEAN :
        LET r == add_allowlist(allowlist, addlist, persist_ok)
        IN  /\ allowlist' = r.al
            /\ last' = Request("add_allowlist", 0, 0, None, Some(addlist), r.rv)
            /\ UNCHANGED << setup, estate, cp_signed, node_vars >>

RemoveAllowlist ==
    \E rmlist \in AllowlistRequests, persist_ok \in BOOLEAN :
        LET r == remove_allowlist(allowlist, rmlist, persist_ok)
        IN  /\ allowlist' = r.al
            /\ last' = Request("remove_allowlist", 0, 0, None, Some(rmlist), r.rv)
            /\ UNCHANGED << setup, estate, cp_signed, node_vars >>

NextClose ==
    \/ SignMutualCloseTxPhase2
    \/ AddAllowlist
    \/ RemoveAllowlist

CloseSpec == InitClose /\ [][NextClose]_vars

\* The value a close pays to the side that pays no fee, and that side's
\* value in the stored holder and counterparty commitments.
NonPayerValue(su, args) ==
    IF su.is_outbound THEN args.to_counterparty_value_sat ELSE args.to_holder_value_sat

NonPayerInHolderCommitment(su, es) ==
    IF su.is_outbound
    THEN Unwrap(es.current_holder_commit_info).to_countersigner_value_sat
    ELSE Unwrap(es.current_holder_commit_info).to_broadcaster_value_sat

NonPayerInCounterpartyCommitment(su, es) ==
    IF su.is_outbound
    THEN Unwrap(es.current_counterparty_commit_info).to_broadcaster_value_sat
    ELSE Unwrap(es.current_counterparty_commit_info).to_countersigner_value_sat

WithinEpsilon(value0, value1) ==
    /\ value0 - value1 <= policy.epsilon_sat
    /\ value1 - value0 <= policy.epsilon_sat

\* C17: in a mutual close the value paid to the side that does not pay the
\* fee (the counterparty of an outbound channel, the holder otherwise) is
\* within epsilon_sat of that side's value in the stored holder commitment
\* and in the stored counterparty commitment; a value more than epsilon_sat
\* larger or smaller than either is rejected, and the channel is not closed.
C17_NonPayerValueWithinEpsilon ==
    [][ last'.op = "sign_mutual_close_tx_phase2" =>
          LET paid == NonPayerValue(setup, Unwrap(last'.tx))
              matches ==
                  /\ WithinEpsilon(paid, NonPayerInHolderCommitment(setup, estate))
                  /\ WithinEpsilon(paid, NonPayerInCounterpartyCommitment(setup, estate))
          IN  /\ last'.rv = OK => matches
              /\ ~matches => (last'.rv # OK /\ estate' = estate) ]_vars

\* A value within the tolerance of the counterparty's commitment and too
\* small for the holder's.
C17_Witness ==
    /\ last.op = "sign_mutual_close_tx_phase2"
    /\ setup.is_outbound
    /\ ~estate.mutual_close_signed
    /\ NonPayerValue(setup, Unwrap(last.tx)) + policy.epsilon_sat
           < NonPayerInHolderCommitment(setup, estate)
    /\ WithinEpsilon(NonPayerValue(setup, Unwrap(last.tx)),
                     NonPayerInCounterpartyCommitment(setup, estate))
    /\ last.rv = "to_counterparty_value outside holder_info.countersigner_value_sat"

\* C18: a mutual close is accepted only if its holder output is spendable
\* under the supplied wallet hint path or its script is in the allowlist at
\* the time of the call; a close that is rejected for its destination with
\* an empty allowlist is accepted once add_allowlist has added the address
\* of its holder output.
C18_HolderOutputToWalletOrAllowlist ==
    [][ /\ last'.op = "sign_mutual_close_tx_phase2" =>
              LET args == Unwrap(last'.tx)
                  allowed ==
                      \/ can_spend(args.wallet_path, Unwrap(args.holder_script))
                      \/ Unwrap(args.holder_script) \in allowlist
              IN  /\ last'.rv = OK => allowed
                  /\ ~allowed => (last'.rv # OK /\ estate' = estate)
        /\ ( /\ last'.op = "add_allowlist"
             /\ last'.rv = OK
             /\ allowlist = {} ) =>
              \A req \in Phase2Requests(setup) :
                  ( /\ Channel_sign_mutual_close_tx_phase2(
                           estate, setup, allowlist, req.to_holder_value_sat,
                           req.to_counterparty_value_sat, req.holder_script,
                           req.counterparty_script, req.wallet_path).rv
                         = "holder output not to wallet or in allowlist"
                    /\ Unwrap(req.holder_script) \in allowlist' )
                  => Channel_sign_mutual_close_tx_phase2(
                         estate, setup, allowlist', req.to_holder_value_sat,
                         req.to_counterparty_value_sat, req.holder_script,
                         req.counterparty_script, req.wallet_path).rv = OK ]_vars

\* A close without a wallet path, accepted for the allowlist.
C18_Witness ==
    /\ last.op = "sign_mutual_close_tx_phase2"
    /\ last.rv = OK
    /\ Unwrap(last.tx).wallet_path = << >>
    /\ ~can_spend(Unwrap(last.tx).wallet_path, Unwrap(Unwrap(last.tx).holder_script))
    /\ Unwrap(Unwrap(last.tx).holder_script) \in allowlist
    /\ estate.mutual_close_signed

(***************************************************************************)
(* The node: its channels map, the slots the map refers to, and the        *)
(* persister's channel records.  The operations are functions of a node    *)
(* value n = [channels, slots, persisted]; held is the set of handles that *)
(* requests in progress still hold a clone of.                             *)
(***************************************************************************)
Node(chs, sl, pe) == [ channels |-> chs, slots |-> sl, persisted |-> pe ]

\* ChannelSlot::Stub(ChannelStub) and ChannelSlot::Ready(Channel)
Stub(id0, nonce) == [ kind |-> "Stub", id0 |-> id0, nonce |-> nonce ]

Ready(id0, id, nonce, su, es) ==
    [ kind |-> "Ready", id0 |-> id0, id |-> id, nonce |-> nonce, setup |-> su,
      enforcement_state |-> es ]

\* The record the persister keeps for a channel, under its id0.
ChannelEntry(nonce, channel_value_satoshis, channel_setup, id, es) ==
    [ nonce |-> nonce, channel_value_satoshis |-> channel_value_satoshis,
      channel_setup |-> channel_setup, id |-> id, enforcement_state |-> es ]

\* Persist::new_channel and Persist::update_channel write these records.
StubEntry(stub) == ChannelEntry(stub.nonce, 0, None, None, EnforcementState_new)

ChannelRecord(chan) ==
    ChannelEntry(chan.nonce, chan.setup.channel_value_sat, Some(chan.setup), chan.id,
                 chan.enforcement_state)

\* Arc::new: a handle nothing refers to yet.  A slot is dropped with the last
\* reference to it.
Referenced(chs, held) == { chs[id] : id \in ChannelIds } \cup held

Arc_new(chs, held) ==
    CHOOSE h \in Handles :
        /\ h \notin Referenced(chs, held)
        /\ \A g \in Handles : g < h => g \in Referenced(chs, held)

Drop(chs, sl, held) ==
    [ h \in Handles |-> IF h \in Referenced(chs, held) THEN sl[h] ELSE NoSlot ]

\* Handles are names only: the node with every slot under the handle that is
\* the least id referring to it.
Canonical(n) ==
    LET least(id) == CHOOSE i \in ChannelIds :
                         /\ n.channels[i] = n.channels[id]
                         /\ \A j \in ChannelIds : n.channels[j] = n.channels[id] => i <= j
        chs == [ id \in ChannelIds |-> IF n.channels[id] = 0 THEN 0 ELSE least(id) ]
    IN  Node(chs,
             [ h \in Handles |->
                 IF h \in ChannelIds /\ chs[h] = h THEN n.slots[n.channels[h]]
                 ELSE NoSlot ],
             n.persisted)

\* new_channel refusing every id that has an entry.
new_channel_already_exists(n, held, channel_id, opt_channel_nonce0) ==
    LET channel_nonce0 == IF IsSome(opt_channel_nonce0)
                          THEN Unwrap(opt_channel_nonce0) ELSE channel_id
        maybe_slot == n.channels[channel_id]
        stub == Stub(channel_id, channel_nonce0)
        arc == Arc_new(n.channels, held)
    IN  IF maybe_slot # 0
        THEN IF n.slots[maybe_slot].kind = "Stub"
             THEN IF channel_nonce0 # n.slots[maybe_slot].nonce
                  THEN [ rv |-> "invalid argument: new_channel nonce mismatch with existing stub",
                         stub |-> None, n |-> n ]
                  ELSE [ rv |-> "invalid argument: channel already exists",
                         stub |-> None, n |-> n ]
             ELSE [ rv |-> "invalid argument: channel already ready",
                    stub |-> None, n |-> n ]
        ELSE IF IsSome(n.persisted[channel_id])
        THEN [ rv |-> "panic: channel was in storage but not in memory",
               stub |-> None,
               n |-> Node([ n.channels EXCEPT ![channel_id] = arc ],
                          [ n.slots EXCEPT ![arc] = stub ], n.persisted) ]
        ELSE [ rv |-> OK, stub |-> Some(stub),
               n |-> Node([ n.channels EXCEPT ![channel_id] = arc ],
                          [ n.slots EXCEPT ![arc] = stub ],
                          [ n.persisted EXCEPT ![channel_id] = Some(StubEntry(stub)) ]) ]

\* new_channel returning the existing stub whatever its nonce.
new_channel_any_nonce(n, held, channel_id, opt_channel_nonce0) ==
    LET channel_nonce0 == IF IsSome(opt_channel_nonce0)
                          THEN Unwrap(opt_channel_nonce0) ELSE channel_id
        maybe_slot == n.channels[channel_id]
        stub == Stub(channel_id, channel_nonce0)
        arc == Arc_new(n.channels, held)
    IN  IF maybe_slot # 0
        THEN IF n.slots[maybe_slot].kind = "Stub"
             THEN [ rv |-> OK, stub |-> Some(n.slots[maybe_slot]), n |-> n ]
             ELSE [ rv |-> "invalid argument: channel already ready",
                    stub |-> None, n |-> n ]
        ELSE IF IsSome(n.persisted[channel_id])
        THEN [ rv |-> "panic: channel was in storage but not in memory",
               stub |-> None,
               n |-> Node([ n.channels EXCEPT ![channel_id] = arc ],
                          [ n.slots EXCEPT ![arc] = stub ], n.persisted) ]
        ELSE [ rv |-> OK, stub |-> Some(stub),
               n |-> Node([ n.channels EXCEPT ![channel_id] = arc ],
                          [ n.slots EXCEPT ![arc] = stub ],
                          [ n.persisted EXCEPT ![channel_id] = Some(StubEntry(stub)) ]) ]

\* The nonce defaults to the channel id.
new_channel(n, held, channel_id, opt_channel_nonce0) ==
    LET channel_nonce0 == IF IsSome(opt_channel_nonce0)
                          THEN Unwrap(opt_channel_nonce0) ELSE channel_id
        maybe_slot == n.channels[channel_id]
        stub == Stub(channel_id, channel_nonce0)
        arc == Arc_new(n.channels, held)
    IN  IF maybe_slot # 0
        THEN IF n.slots[maybe_slot].kind = "Stub"
             THEN IF channel_nonce0 # n.slots[maybe_slot].nonce
                  THEN [ rv |-> "invalid argument: new_channel nonce mismatch with existing stub",
                         stub |-> None, n |-> n ]
                  ELSE [ rv |-> OK, stub |-> Some(n.slots[maybe_slot]), n |-> n ]
             ELSE [ rv |-> "invalid argument: channel already ready",
                    stub |-> None, n |-> n ]
        ELSE IF IsSome(n.persisted[channel_id])
        THEN [ rv |-> "panic: channel was in storage but not in memory",
               stub |-> None,
               n |-> Node([ n.channels EXCEPT ![channel_id] = arc ],
                          [ n.slots EXCEPT ![arc] = stub ], n.persisted) ]
        ELSE [ rv |-> OK, stub |-> Some(stub),
               n |-> Node([ n.channels EXCEPT ![channel_id] = arc ],
                          [ n.slots EXCEPT ![arc] = stub ],
                          [ n.persisted EXCEPT ![channel_id] = Some(StubEntry(stub)) ]) ]

validate_ready_channel(al, su, holder_shutdown_key_path) ==
    LET cp == validate_delay("counterparty_selected_contest_delay",
                             su.counterparty_selected_contest_delay)
        holder == validate_delay("holder_selected_contest_delay",
                                 su.holder_selected_contest_delay)
    IN  IF cp # OK THEN cp
        ELSE IF holder # OK THEN holder
        ELSE IF /\ IsSome(su.holder_shutdown_script)
                /\ ~can_spend(holder_shutdown_key_path, Unwrap(su.holder_shutdown_script))
                /\ ~allowlist_contains(al, Unwrap(su.holder_shutdown_script))
        THEN "holder_shutdown_script is not in wallet or allowlist"
        ELSE OK

\* The first block taking any slot for a stub.
ready_channel_stub_unchecked(n, channel_id0, opt_channel_id, su) ==
    LET arcobj == n.channels[channel_id0]
    IN  IF arcobj = 0
        THEN [ rv |-> "invalid argument: channel does not exist", chan |-> None ]
        ELSE [ rv |-> OK,
               chan |-> Some(Ready(channel_id0, opt_channel_id, n.slots[arcobj].nonce,
                                   su, EnforcementState_new)) ]

\* ready_channel, first block: under the map's and the slot's mutex, require
\* a Stub at channel_id0 and build the Channel from it.
ready_channel_stub(n, channel_id0, opt_channel_id, su) ==
    LET arcobj == n.channels[channel_id0]
    IN  IF arcobj = 0
        THEN [ rv |-> "invalid argument: channel does not exist", chan |-> None ]
        ELSE IF n.slots[arcobj].kind # "Stub"
        THEN [ rv |-> "invalid argument: channel already ready", chan |-> None ]
        ELSE [ rv |-> OK,
               chan |-> Some(Ready(channel_id0, opt_channel_id, n.slots[arcobj].nonce,
                                   su, EnforcementState_new)) ]

\* ready_channel, the rest: validate the setup, then under the map's mutex
\* insert a new slot under the channel's ids, then persist.
ready_channel_insert(n, held, al, chan, holder_shutdown_key_path, persist_ok) ==
    LET valid == validate_ready_channel(al, chan.setup, holder_shutdown_key_path)
        arcobj == Arc_new(n.channels, held)
        chan_id == IF IsSome(chan.id) THEN Unwrap(chan.id) ELSE chan.id0
        chs == [ n.channels EXCEPT ![chan_id] = arcobj, ![chan.id0] = arcobj ]
        sl == Drop(chs, [ n.slots EXCEPT ![arcobj] = chan ], held)
    IN  IF valid # OK THEN [ rv |-> "policy failure: " \o valid, n |-> n ]
        ELSE IF ~persist_ok \/ IsNone(n.persisted[chan.id0])
        THEN [ rv |-> "internal: persist failed", n |-> Node(chs, sl, n.persisted) ]
        ELSE [ rv |-> OK,
               n |-> Node(chs, sl, [ n.persisted EXCEPT
                                       ![chan.id0] = Some(ChannelRecord(chan)) ]) ]

\* ready_channel accepting the repetition of the setup it has stored.
ready_channel_idempotent(n, held, al, channel_id0, opt_channel_id, su, holder_shutdown_key_path, persist_ok) ==
    LET s == ready_channel_stub(n, channel_id0, opt_channel_id, su)
    IN  IF /\ n.channels[channel_id0] # 0
           /\ n.slots[n.channels[channel_id0]].kind = "Ready"
           /\ n.slots[n.channels[channel_id0]].setup = su
        THEN [ rv |-> OK, n |-> n ]
        ELSE IF s.rv # OK THEN [ rv |-> s.rv, n |-> n ]
        ELSE ready_channel_insert(n, held, al, Unwrap(s.chan),
                                  holder_shutdown_key_path, persist_ok)

ready_channel(n, held, al, channel_id0, opt_channel_id, su, holder_shutdown_key_path, persist_ok) ==
    LET s == ready_channel_stub(n, channel_id0, opt_channel_id, su)
    IN  IF s.rv # OK THEN [ rv |-> s.rv, n |-> n ]
        ELSE ready_channel_insert(n, held, al, Unwrap(s.chan),
                                  holder_shutdown_key_path, persist_ok)

\* get_channel and the match of with_ready_channel: the handle of the Ready
\* slot the id resolves to, or the error.
get_ready_channel(n, channel_id) ==
    LET slot_arc == n.channels[channel_id]
    IN  IF slot_arc = 0
        THEN [ rv |-> "invalid argument: no such channel", arc |-> 0 ]
        ELSE IF n.slots[slot_arc].kind = "Stub"
        THEN [ rv |-> "invalid argument: channel not ready", arc |-> 0 ]
        ELSE [ rv |-> OK, arc |-> slot_arc ]

\* A channel operation f run by with_ready_channel on the slot at arc: r is
\* f's result and the EnforcementState it leaves; the channel persists
\* itself when f succeeded.
channel_update(n, arc, r) ==
    LET chan == [ n.slots[arc] EXCEPT !.enforcement_state = r.es ]
    IN  IF r.rv # OK THEN n
        ELSE Node(n.channels, [ n.slots EXCEPT ![arc] = chan ],
                  [ n.persisted EXCEPT ![chan.id0] = Some(ChannelRecord(chan)) ])

\* The restore that starts every channel from the initial EnforcementState.
restore_channel_initial_state(n, channel_id0, entry) ==
    LET slot == IF IsNone(entry.channel_setup)
                THEN Stub(channel_id0, entry.nonce)
                ELSE Ready(channel_id0, entry.id, entry.nonce,
                           Unwrap(entry.channel_setup), EnforcementState_new)
        arc == Arc_new(n.channels, {})
        chs0 == [ n.channels EXCEPT ![channel_id0] = arc ]
        chs == IF IsSome(entry.id) THEN [ chs0 EXCEPT ![Unwrap(entry.id)] = arc ]
               ELSE chs0
    IN  IF n.channels[channel_id0] # 0
        THEN [ rv |-> "panic: assertion failed: !channels.contains_key(&channel_id0)",
               n |-> n ]
        ELSE [ rv |-> OK,
               n |-> Node(chs, Drop(chs, [ n.slots EXCEPT ![arc] = slot ], {}),
                          n.persisted) ]

restore_channel(n, channel_id0, entry) ==
    LET slot == IF IsNone(entry.channel_setup)
                THEN Stub(channel_id0, entry.nonce)
                ELSE Ready(channel_id0, entry.id, entry.nonce,
                           Unwrap(entry.channel_setup), entry.enforcement_state)
        arc == Arc_new(n.channels, {})
        chs0 == [ n.channels EXCEPT ![channel_id0] = arc ]
        chs == IF IsSome(entry.id) THEN [ chs0 EXCEPT ![Unwrap(entry.id)] = arc ]
               ELSE chs0
    IN  IF n.channels[channel_id0] # 0
        THEN [ rv |-> "panic: assertion failed: !channels.contains_key(&channel_id0)",
               n |-> n ]
        ELSE [ rv |-> OK,
               n |-> Node(chs, Drop(chs, [ n.slots EXCEPT ![arc] = slot ], {}),
                          n.persisted) ]

\* restore_node: a new node, then every persisted channel in key order.
RECURSIVE restore_channels(_, _)
restore_channels(n, channel_id0) ==
    IF channel_id0 > NumChannelIds THEN [ rv |-> OK, n |-> n ]
    ELSE IF IsNone(n.persisted[channel_id0]) THEN restore_channels(n, channel_id0 + 1)
    ELSE LET r == restore_channel(n, channel_id0, Unwrap(n.persisted[channel_id0]))
         IN  IF r.rv # OK THEN r ELSE restore_channels(r.n, channel_id0 + 1)

restore_node(pe) ==
    restore_channels(Node([ id \in ChannelIds |-> 0 ], [ h \in Handles |-> NoSlot ], pe), 1)

(***************************************************************************)
(* Funding.  The funding script of a channel is the p2wsh of the 2-of-2    *)
(* redeemscript of the two funding keys; the holder's key derives from the *)
(* channel's id0 and nonce.                                                *)
(***************************************************************************)
OutPoint(txid, vout) == [ txid |-> txid, vout |-> vout ]

funding_script(chan) == 300 + 10 * chan.id0 + chan.nonce

\* The Ready slots a funding outpoint belongs to.  The code returns the first
\* it meets while iterating over the map, whose order is not specified.
find_channel_with_funding_outpoint(n, outpoint) ==
    { n.channels[id] : id \in { i \in ChannelIds :
        /\ n.channels[i] # 0
        /\ n.slots[n.channels[i]].kind = "Ready"
        /\ n.slots[n.channels[i]].setup.funding_outpoint = outpoint } }

\* The sum of u64 values by checked_add, which fails from 2^64 on; the
\* values of the model are far below, and -1 stands for the failure.
RECURSIVE checked_sum(_, _, _)
checked_sum(values, i, sum) ==
    IF i > Len(values) THEN sum
    ELSE IF sum < 0 \/ values[i] < 0 THEN -1
    ELSE checked_sum(values, i + 1, sum + values[i])

\* The loop asking only that some holder commitment has been validated.
RECURSIVE validate_onchain_outputs_any_commitment(_, _, _, _)
validate_onchain_outputs_any_commitment(channel_slots, tx, opaths, outndx) ==
    IF outndx > Len(tx.output) THEN OK
    ELSE IF outndx > Len(opaths) THEN "panic: index out of bounds"
    ELSE LET output == tx.output[outndx]
             opath == opaths[outndx]
             channel_slot == channel_slots[outndx]
             chan == Unwrap(channel_slot)
         IN  IF Len(opath) > 0
             THEN IF ~can_spend(opath, output.script_pubkey)
                  THEN "wallet cannot spend output"
                  ELSE validate_onchain_outputs_any_commitment(channel_slots, tx, opaths, outndx + 1)
             ELSE IF IsNone(channel_slot) THEN "unknown output"
             ELSE IF chan.setup.push_value_msat \div 1000 > policy.max_push_sat
             THEN "push_value_msat greater than max_push_sat"
             ELSE IF output.value # chan.setup.channel_value_sat
             THEN "funding output amount mismatch w/ channel"
             ELSE IF output.script_pubkey # funding_script(chan)
             THEN "funding script_pubkey mismatch w/ channel"
             ELSE IF chan.enforcement_state.next_holder_commit_num < 1
             THEN "initial holder commitment not validated"
             ELSE validate_onchain_outputs_any_commitment(channel_slots, tx, opaths, outndx + 1)

\* The loop over the outputs of validate_onchain_tx, from output outndx on.
\* channel_slots[outndx] is None or the slot found for the output.
RECURSIVE validate_onchain_outputs(_, _, _, _)
validate_onchain_outputs(channel_slots, tx, opaths, outndx) ==
    IF outndx > Len(tx.output) THEN OK
    ELSE IF outndx > Len(opaths) THEN "panic: index out of bounds"
    ELSE LET output == tx.output[outndx]
             opath == opaths[outndx]
             channel_slot == channel_slots[outndx]
             chan == Unwrap(channel_slot)
         IN  IF Len(opath) > 0
             THEN IF ~can_spend(opath, output.script_pubkey)
                  THEN "wallet cannot spend output"
                  ELSE validate_onchain_outputs(channel_slots, tx, opaths, outndx + 1)
             ELSE IF IsNone(channel_slot) THEN "unknown output"
             ELSE IF chan.setup.push_value_msat \div 1000 > policy.max_push_sat
             THEN "push_value_msat greater than max_push_sat"
             ELSE IF output.value # chan.setup.channel_value_sat
             THEN "funding output amount mismatch w/ channel"
             ELSE IF output.script_pubkey # funding_script(chan)
             THEN "funding script_pubkey mismatch w/ channel"
             ELSE IF chan.enforcement_state.next_holder_commit_num # 1
             THEN "initial holder commitment not validated"
             ELSE validate_onchain_outputs(channel_slots, tx, opaths, outndx + 1)

validate_onchain_tx(channel_slots, tx, values_sat, opaths) ==
    LET sum_inputs == checked_sum(values_sat, 1, 0)
        sum_outputs == checked_sum([ i \in 1..Len(tx.output) |-> tx.output[i].value ],
                                   1, 0)
        fee == validate_fee(sum_inputs, sum_outputs)
    IN  IF sum_inputs < 0 THEN "funding sum inputs overflow"
        ELSE IF sum_outputs < 0 THEN "funding sum outputs overflow"
        ELSE IF fee # OK THEN fee
        ELSE IF tx.version # 2 THEN "invalid version"
        ELSE validate_onchain_outputs(channel_slots, tx, opaths, 1)

\* sign_funding_tx up to its validation: found[outndx] is 0 or the handle
\* found for output outndx.
sign_funding_tx(n, found, tx, values_sat, opaths) ==
    validate_onchain_tx([ i \in 1..Len(tx.output) |->
                            IF found[i] = 0 THEN None ELSE Some(n.slots[found[i]]) ],
                        tx, values_sat, opaths)

(***************************************************************************)
(* Requests to the node.                                                   *)
(***************************************************************************)
NodeSetup(delay, vout) ==
    [ channel_value_sat                   |-> 3000000,
      push_value_msat                     |-> 0,
      is_outbound                         |-> TRUE,
      holder_selected_contest_delay       |-> delay,
      counterparty_selected_contest_delay |-> 7,
      holder_shutdown_script              |-> None,
      funding_outpoint                    |-> OutPoint(1, vout) ]

\* new_channel requests: the first two ids with the default nonce, and the
\* first also with the nonce "nonce1".
NewChannelRequests ==
    { [ id |-> 1, nonce |-> None ], [ id |-> 1, nonce |-> Some(9) ],
      [ id |-> 2, nonce |-> None ] }

\* ready_channel requests: each of the first two channels without a permanent
\* id and with one (the first channel's is the third id, the second
\* channel's is the first id), and the first channel with another setup and
\* with one whose delay is too small.
ReadyChannelRequests ==
    { [ id0 |-> 1, id |-> None, setup |-> NodeSetup(6, 0) ],
      [ id0 |-> 1, id |-> Some(3), setup |-> NodeSetup(6, 0) ],
      [ id0 |-> 2, id |-> None, setup |-> NodeSetup(6, 0) ],
      [ id0 |-> 2, id |-> Some(1), setup |-> NodeSetup(6, 0) ],
      [ id0 |-> 1, id |-> None, setup |-> NodeSetup(6, 1) ],
      [ id0 |-> 1, id |-> None, setup |-> NodeSetup(3, 0) ] }

\* The initial holder commitment and its successors.
NodeHolderInfo(su) ==
    CommitmentInfo2(FALSE, 2949000, 0, su.counterparty_selected_contest_delay,
                    << >>, << >>)

\* Funding transactions with one output: to the channel with id0 and nonce as
\* given, to the wallet, and to neither.
FundingTxs ==
    { [ tx |-> [ version |-> 2, txid |-> 1,
                 output |-> << TxOut(3000000, 300 + 10 * id0 + 9) >> ],
        values_sat |-> << 3001000 >>, opaths |-> << << >> >> ] : id0 \in ChannelIds }
    \cup
    { [ tx |-> [ version |-> 2, txid |-> 1,
                 output |-> << TxOut(3000000, native_script(WalletPath)) >> ],
        values_sat |-> << 3001000 >>, opaths |-> << WalletPath >> ],
      [ tx |-> [ version |-> 2, txid |-> 2,
                 output |-> << TxOut(3000000, 319) >> ],
        values_sat |-> << 3001000 >>, opaths |-> << << >> >> ] }

NodeRequest(op, id, arg, rv) == [ op |-> op, id |-> id, arg |-> arg, rv |-> rv ]

TheNode == Node(channels, slots, persisted)

\* What the ids resolve to, and which ids share a slot.
NodeView(n) ==
    [ slot |-> [ id \in ChannelIds |->
                   IF n.channels[id] = 0 THEN NoSlot ELSE n.slots[n.channels[id]] ],
      alias |-> { << i, j >> \in ChannelIds \X ChannelIds :
                    n.channels[i] # 0 /\ n.channels[i] = n.channels[j] } ]

\* The slots found for the outputs of a funding transaction.
FoundSlots(n, tx) ==
    { found \in [ 1..Len(tx.output) -> Handles \cup { 0 } ] :
        \A i \in 1..Len(tx.output) :
            LET slot_arcs == find_channel_with_funding_outpoint(
                                 n, OutPoint(tx.txid, i - 1))
            IN  IF slot_arcs = {} THEN found[i] = 0 ELSE found[i] \in slot_arcs }

(***************************************************************************)
(* The node's state machine, one request at a time.                        *)
(***************************************************************************)
InitNode ==
    /\ setup = None
    /\ estate = EnforcementState_new
    /\ allowlist = {}
    /\ last = NodeRequest("new_node", 0, None, OK)
    /\ cp_signed = {}
    /\ Node_new

NodeNewChannel ==
    \E req \in NewChannelRequests :
        LET r == new_channel(TheNode, {}, req.id, req.nonce)
        IN  /\ channels' = Canonical(r.n).channels
            /\ slots' = Canonical(r.n).slots
            /\ persisted' = r.n.persisted
            /\ last' = NodeRequest("new_channel", req.id,
                                   [ nonce |-> req.nonce, stub |-> r.stub,
                                     existing |-> channels[req.id] # 0 ], r.rv)
            /\ UNCHANGED << setup, estate, allowlist, cp_signed, threads >>

NodeReadyChannel ==
    \E req \in ReadyChannelRequests :
        LET r == ready_channel(TheNode, {}, allowlist, req.id0, req.id, req.setup,
                               << >>, TRUE)
        IN  /\ channels' = Canonical(r.n).channels
            /\ slots' = Canonical(r.n).slots
            /\ persisted' = r.n.persisted
            /\ last' = NodeRequest("ready_channel", req.id0,
                                   [ id |-> req.id, setup |-> req.setup ], r.rv)
            /\ UNCHANGED << setup, estate, allowlist, cp_signed, threads >>

NodeValidateHolderCommitmentTx ==
    \E channel_id \in ChannelIds, commit_num \in CommitNums :
        LET g == get_ready_channel(TheNode, channel_id)
            chan == slots[g.arc]
            r == Channel_validate_holder_commitment_tx(
                     chan.enforcement_state, chan.setup, commit_num,
                     NodeHolderInfo(chan.setup))
            n == channel_update(TheNode, g.arc, r)
        IN  IF g.rv # OK
            THEN /\ last' = NodeRequest("validate_holder_commitment_tx", channel_id,
                                        [ commit_num |-> commit_num ], g.rv)
                 /\ UNCHANGED << setup, estate, allowlist, cp_signed, node_vars >>
            ELSE /\ r.es.next_holder_commit_num <= MaxCommitNum
                 /\ channels' = n.channels
                 /\ slots' = n.slots
                 /\ persisted' = n.persisted
                 /\ last' = NodeRequest("validate_holder_commitment_tx", channel_id,
                                        [ commit_num |-> commit_num ], r.rv)
                 /\ UNCHANGED << setup, estate, allowlist, cp_signed, threads >>

NodeSignFundingTx ==
    \E req \in FundingTxs :
        \E found \in FoundSlots(TheNode, req.tx) :
            /\ last' = NodeRequest("sign_funding_tx", 0,
                                   [ req |-> req, found |-> found ],
                                   sign_funding_tx(TheNode, found, req.tx,
                                                   req.values_sat, req.opaths))
            /\ UNCHANGED << setup, estate, allowlist, cp_signed, node_vars >>

\* The process stops inside validate_holder_commitment_tx, after the channel
\* advanced its EnforcementState and before it persisted it, and the node is
\* restored from the persister.
NodeCrashBeforePersist ==
    \E channel_id \in ChannelIds, commit_num \in CommitNums :
        LET g == get_ready_channel(TheNode, channel_id)
            chan == slots[g.arc]
            r == Channel_validate_holder_commitment_tx(
                     chan.enforcement_state, chan.setup, commit_num,
                     NodeHolderInfo(chan.setup))
            restored == restore_node(persisted)
        IN  /\ g.rv = OK
            /\ r.rv = OK
            /\ r.es # chan.enforcement_state
            /\ channels' = Canonical(restored.n).channels
            /\ slots' = Canonical(restored.n).slots
            /\ last' = NodeRequest("restore_node", channel_id,
                                   [ commit_num |-> commit_num ], restored.rv)
            /\ UNCHANGED << setup, estate, allowlist, cp_signed, persisted, threads >>

NextNode ==
    \/ NodeNewChannel
    \/ NodeReadyChannel
    \/ NodeValidateHolderCommitmentTx
    \/ NodeSignFundingTx
    \/ NodeCrashBeforePersist

NodeSpec == InitNode /\ [][NextNode]_vars

(***************************************************************************)
(* Properties of the channels map.                                         *)
(***************************************************************************)
\* The slot an id resolves to.
Resolve(id) == slots[channels[id]]

\* C21: every entry of the channels map whose key differs from the id0 of
\* the channel it refers to refers to the same slot as the entry of that
\* id0, so that both ids reach one state.
C21_AliasSharesSlotOfId0 ==
    \A key \in ChannelIds :
        (channels[key] # 0 /\ Resolve(key).id0 # key)
            => channels[Resolve(key).id0] = channels[key]

\* The permanent id of one Ready channel and its id0 resolve to two channels.
C21_Witness ==
    \E key \in ChannelIds :
        /\ channels[key] # 0
        /\ Resolve(key).kind = "Ready"
        /\ Resolve(key).id = Some(key)
        /\ channels[Resolve(key).id0] # channels[key]
        /\ Resolve(Resolve(key).id0).kind = "Ready"

\* C22: Stub to Ready is one-way.  Across every new_channel, ready_channel
\* and channel operation, an id that resolves to a Ready slot still resolves
\* to a Ready slot, and its EnforcementState is not set back to the initial
\* one.
C22_ReadyIsOneWay ==
    [][ last'.op \in { "new_channel", "ready_channel", "validate_holder_commitment_tx" }
          => \A id \in ChannelIds :
                 (channels[id] # 0 /\ Resolve(id).kind = "Ready")
                     => /\ channels'[id] # 0
                        /\ Resolve(id)'.kind = "Ready"
                        /\ (Resolve(id).enforcement_state # EnforcementState_new
                               => Resolve(id)'.enforcement_state # EnforcementState_new)
      ]_vars

\* A ready_channel for another id0 succeeded, and its permanent id resolves
\* to the new channel, in its initial state, while the channel that formerly
\* had that id and had validated a holder commitment is still persisted.
C22_Witness ==
    /\ last.op = "ready_channel"
    /\ last.rv = OK
    /\ IsSome(last.arg.id)
    /\ Unwrap(last.arg.id) # last.id
    /\ Resolve(Unwrap(last.arg.id)).id0 = last.id
    /\ Resolve(Unwrap(last.arg.id)).enforcement_state = EnforcementState_new
    /\ IsSome(persisted[Unwrap(last.arg.id)])
    /\ Unwrap(persisted[Unwrap(last.arg.id)]).enforcement_state.next_holder_commit_num > 0

\* The nonce new_channel uses for a request.
RequestNonce(req) == IF IsSome(req.arg.nonce) THEN Unwrap(req.arg.nonce) ELSE req.id

\* C23: new_channel for an id that maps to a Stub with the same nonce returns
\* that stub and changes neither the channels map nor the persisted records.
C23_NewChannelIdempotentOnStub ==
    [][ ( /\ last'.op = "new_channel"
          /\ channels[last'.id] # 0
          /\ Resolve(last'.id).kind = "Stub"
          /\ Resolve(last'.id).nonce = RequestNonce(last') )
          => /\ last'.rv = OK
             /\ last'.arg.stub = Some(Resolve(last'.id))
             /\ channels' = channels
             /\ slots' = slots
             /\ persisted' = persisted
      ]_vars

\* A repeated new_channel that returned the stub of the first, while another
\* channel of the node is Ready.
C23_Witness ==
    /\ last.op = "new_channel"
    /\ last.arg.existing
    /\ last.rv = OK
    /\ last.arg.stub = Some(Resolve(last.id))
    /\ Resolve(last.id).nonce = RequestNonce(last)
    /\ \E id \in ChannelIds : channels[id] # 0 /\ Resolve(id).kind = "Ready"

\* Status::invalid_argument results of the node.
InvalidArgument(rv) ==
    rv \in { "invalid argument: new_channel nonce mismatch with existing stub",
             "invalid argument: channel already ready",
             "invalid argument: channel does not exist",
             "invalid argument: no such channel",
             "invalid argument: channel not ready" }

\* C24: new_channel for an id that maps to a Ready channel, or to a Stub with
\* another nonce than the one supplied, fails with InvalidArgument and leaves
\* the slot, the map and the persisted records as they were.
C24_NewChannelCollisionFails ==
    [][ ( /\ last'.op = "new_channel"
          /\ channels[last'.id] # 0
          /\ \/ Resolve(last'.id).kind = "Ready"
             \/ Resolve(last'.id).nonce # RequestNonce(last') )
          => /\ InvalidArgument(last'.rv)
             /\ last'.arg.stub = None
             /\ channels' = channels
             /\ slots' = slots
             /\ persisted' = persisted
      ]_vars

\* A new_channel refused for a Ready channel that has validated a holder
\* commitment.
C24_Witness ==
    /\ last.op = "new_channel"
    /\ InvalidArgument(last.rv)
    /\ Resolve(last.id).kind = "Ready"
    /\ Resolve(last.id).enforcement_state.next_holder_commit_num > 0

\* The channel at id0 is Ready when the request arrives.
AlreadyReady(id0) == channels[id0] # 0 /\ Resolve(id0).kind = "Ready"

\* C25: ready_channel for an id0 that is already Ready fails with
\* InvalidArgument whatever the setup, and leaves the channel's setup, its
\* aliases and its EnforcementState as they were.
C25_ReadyChannelOnReadyFails ==
    [][ (last'.op = "ready_channel" /\ AlreadyReady(last'.id))
          => /\ InvalidArgument(last'.rv)
             /\ channels' = channels
             /\ slots' = slots
             /\ persisted' = persisted
      ]_vars

\* A ready_channel with another setup than the stored one, refused for a
\* channel that has advanced its EnforcementState.
C25_Witness ==
    /\ last.op = "ready_channel"
    /\ InvalidArgument(last.rv)
    /\ AlreadyReady(last.id)
    /\ last.arg.setup # Resolve(last.id).setup
    /\ Resolve(last.id).enforcement_state.next_holder_commit_num > 0

\* C26 as stated: on a Ready channel, ready_channel with the stored setup
\* succeeds and changes nothing, and with another setup it fails.
C26_ReadyChannelIdempotentIfSetupMatches ==
    [][ (last'.op = "ready_channel" /\ AlreadyReady(last'.id))
          => IF last'.arg.setup = Resolve(last'.id).setup
             THEN /\ last'.rv = OK
                  /\ channels' = channels
                  /\ slots' = slots
                  /\ persisted' = persisted
             ELSE last'.rv # OK
      ]_vars

\* C26: ready_channel is not idempotent.  On a Ready channel the repetition
\* of the very request that readied it (same setup, same permanent id) is
\* refused as "channel already ready", like a request with another setup,
\* and nothing changes.
C26_ReadyChannelRepetitionFails ==
    [][ ( /\ last'.op = "ready_channel"
          /\ AlreadyReady(last'.id)
          /\ last'.arg.setup = Resolve(last'.id).setup )
          => /\ last'.rv = "invalid argument: channel already ready"
             /\ NodeView(Node(channels', slots', persisted')) = NodeView(TheNode)
             /\ persisted' = persisted
      ]_vars

\* The repetition of the request that readied the channel, refused.
C26_Witness ==
    /\ last.op = "ready_channel"
    /\ last.rv = "invalid argument: channel already ready"
    /\ AlreadyReady(last.id)
    /\ Resolve(last.id).id0 = last.id
    /\ last.arg.setup = Resolve(last.id).setup
    /\ last.arg.id = Resolve(last.id).id

\* The result of validate_holder_commitment_tx for request req on node n.
RetryResult(n, req) ==
    LET g == get_ready_channel(n, req.id)
        chan == n.slots[g.arc]
    IN  IF g.rv # OK THEN g.rv
        ELSE Channel_validate_holder_commitment_tx(
                 chan.enforcement_state, chan.setup, req.arg.commit_num,
                 NodeHolderInfo(chan.setup)).rv

\* C29: when the process stops after an operation advanced the
\* EnforcementState and before the state was persisted, the restored node
\* resolves every id to what it resolved to before the request, with the
\* persisted EnforcementState, and the same request is accepted again.
C29_CrashBeforePersistKeepsPriorState ==
    [][ last'.op = "restore_node"
          => /\ last'.rv = OK
             /\ NodeView(Node(channels', slots', persisted')) = NodeView(TheNode)
             /\ \A id \in ChannelIds :
                    (channels'[id] # 0 /\ Resolve(id)'.kind = "Ready")
                        => Resolve(id)'.enforcement_state
                             = Unwrap(persisted[Resolve(id)'.id0]).enforcement_state
             /\ RetryResult(Node(channels', slots', persisted'), last') = OK
      ]_vars

\* A restart after the validation of holder commitment 1 was lost: the
\* channel is back at next_holder_commit_num = 1.
C29_Witness ==
    /\ last.op = "restore_node"
    /\ last.rv = OK
    /\ last.arg.commit_num = 1
    /\ Resolve(last.id).kind = "Ready"
    /\ Resolve(last.id).enforcement_state.next_holder_commit_num = 1
    /\ RetryResult(TheNode, last) = OK

\* Output i of the funding request req was matched to a channel of the node:
\* it has no wallet path and a Ready channel has its outpoint.
FundsKnownChannel(req, i) ==
    Len(req.arg.req.opaths[i]) = 0 /\ req.arg.found[i] # 0

\* C30: sign_funding_tx approves an output that funds a known channel only
\* while that channel's next_holder_commit_num is 1.  With any other value,
\* in particular before the initial holder commitment was validated, the
\* request fails; an output that matches the channel's value and funding
\* script then fails for that reason and no other.
C30_FundingNeedsInitialHolderCommitment ==
    last.op = "sign_funding_tx"
        => \A i \in 1..Len(last.arg.req.tx.output) :
               FundsKnownChannel(last, i)
                   => LET chan == slots[last.arg.found[i]]
                          output == last.arg.req.tx.output[i]
                          num == chan.enforcement_state.next_holder_commit_num
                      IN  /\ last.rv = OK => num = 1
                          /\ ( /\ output.value = chan.setup.channel_value_sat
                                /\ output.script_pubkey = funding_script(chan)
                                /\ num # 1 )
                                => last.rv = "initial holder commitment not validated"

\* A funding transaction approved for a channel whose initial holder
\* commitment has been validated.
C30_Witness ==
    /\ last.op = "sign_funding_tx"
    /\ last.rv = OK
    /\ FundsKnownChannel(last, 1)
    /\ slots[last.arg.found[1]].enforcement_state.next_holder_commit_num = 1
    /\ IsSome(slots[last.arg.found[1]].enforcement_state.current_holder_commit_info)

(***************************************************************************)
(* Requests in parallel.  Each thread serves one request, step by step:    *)
(* a step ends where the thread has to wait for a mutex.  held is the      *)
(* sequence of mutexes a thread holds, in the order it acquired them: 0 is *)
(* the mutex of the channels map, a handle is the mutex of that slot.      *)
(***************************************************************************)
ChannelsMutex == 0

Thread(pc, req, held, arc, chan, cursor, rv) ==
    [ pc |-> pc, req |-> req, held |-> held, arc |-> arc, chan |-> chan,
      cursor |-> cursor, rv |-> rv ]

\* A thread that returned rv: its guards and its clone of a handle are dropped.
Returned(thr, rv) == Thread("done", thr.req, << >>, 0, None, 0, rv)

Holds(thr, mutex) == \E i \in 1..Len(thr.held) : thr.held[i] = mutex

Free(mutex) == \A t \in Threads : ~Holds(threads[t], mutex)

\* The handles the threads hold a clone of.
HeldArcs(thrs) == { thrs[t].arc : t \in Threads } \ { 0 }

\* get_channel returning with the map still locked.
get_channel_keep_guard(n, channel_id) ==
    [ arc |-> n.channels[channel_id], held |-> << ChannelsMutex >> ]

\* get_channel: the handle the id maps to, and the mutexes held on return
\* (the guard of the map is dropped).
get_channel(n, channel_id) ==
    [ arc |-> n.channels[channel_id], held |-> << >> ]

\* The requests a thread may serve.
ConcRequests ==
    { NodeRequest("ready_channel", 1, [ id |-> None, setup |-> NodeSetup(6, 0) ], None),
      NodeRequest("ready_channel", 1, [ id |-> Some(3), setup |-> NodeSetup(6, 0) ], None),
      NodeRequest("validate_holder_commitment_tx", 1, [ commit_num |-> 0 ], None),
      NodeRequest("validate_holder_commitment_tx", 3, [ commit_num |-> 0 ], None),
      NodeRequest("new_channel", 1, [ nonce |-> Some(9) ], None),
      NodeRequest("new_channel", 2, [ nonce |-> None ], None),
      NodeRequest("sign_funding_tx", 0,
                  [ tx |-> [ version |-> 2, txid |-> 1,
                             output |-> << TxOut(3000000, 319) >> ],
                    values_sat |-> << 3001000 >>, opaths |-> << << >> >> ], None) }

\* The node a new_channel request leaves when it is the first on a new node.
FirstChannel(req) ==
    Canonical(new_channel(Node([ id \in ChannelIds |-> 0 ],
                               [ h \in Handles |-> NoSlot ],
                               [ id \in ChannelIds |-> None ]),
                          {}, req.id, req.arg.nonce).n)

\* The threads start when new_channel(1, "nonce9") has returned.
InitConc ==
    /\ setup = None
    /\ estate = EnforcementState_new
    /\ allowlist = {}
    /\ last = NodeRequest("new_channel", 1, [ nonce |-> Some(9) ], OK)
    /\ cp_signed = {}
    /\ channels = FirstChannel(last).channels
    /\ slots = FirstChannel(last).slots
    /\ persisted = FirstChannel(last).persisted
    /\ threads \in [ Threads -> { Thread("start", req, << >>, 0, None, 0, None) :
                                    req \in ConcRequests } ]

\* Thread t becomes thr and the node n; slots nothing refers to are dropped.
ThreadStep(t, thr, n) ==
    LET thrs == [ threads EXCEPT ![t] = thr ]
    IN  /\ threads' = thrs
        /\ channels' = n.channels
        /\ slots' = Drop(n.channels, n.slots, HeldArcs(thrs))
        /\ persisted' = n.persisted
        /\ UNCHANGED << setup, estate, allowlist, last, cp_signed >>

\* Every operation begins by locking the channels map.
LockChannels ==
    \E t \in Threads :
        LET thr == threads[t]
        IN  /\ thr.pc = "start"
            /\ Free(ChannelsMutex)
            /\ ThreadStep(t, [ thr EXCEPT !.pc = "channels", !.held = << ChannelsMutex >>,
                                          !.cursor = 1 ], TheNode)

\* with_ready_channel: get_channel looks the id up and returns a clone of the
\* handle.
GetChannel ==
    \E t \in Threads :
        LET thr == threads[t]
            g == get_channel(TheNode, thr.req.id)
        IN  /\ thr.pc = "channels"
            /\ thr.req.op = "validate_holder_commitment_tx"
            /\ IF g.arc = 0
               THEN ThreadStep(t, Returned(thr, "invalid argument: no such channel"),
                               TheNode)
               ELSE ThreadStep(t, [ thr EXCEPT !.pc = "slot", !.held = g.held,
                                               !.arc = g.arc ], TheNode)

\* with_ready_channel: lock the slot.
LockSlot ==
    \E t \in Threads :
        LET thr == threads[t]
        IN  /\ thr.pc = "slot"
            /\ Free(thr.arc)
            /\ ThreadStep(t, [ thr EXCEPT !.pc = "run", !.held = Append(thr.held, thr.arc) ],
                          TheNode)

\* with_ready_channel: refuse a Stub, run the operation on a Ready channel.
RunChannelOp ==
    \E t \in Threads :
        LET thr == threads[t]
            chan == slots[thr.arc]
            r == Channel_validate_holder_commitment_tx(
                     chan.enforcement_state, chan.setup, thr.req.arg.commit_num,
                     NodeHolderInfo(chan.setup))
        IN  /\ thr.pc = "run"
            /\ IF chan.kind = "Stub"
               THEN ThreadStep(t, Returned(thr, "invalid argument: channel not ready"),
                               TheNode)
               ELSE ThreadStep(t, Returned(thr, r.rv), channel_update(TheNode, thr.arc, r))

\* ready_channel: look channel_id0 up and lock its slot, the map still locked.
ReadyChannelLockSlot ==
    \E t \in Threads :
        LET thr == threads[t]
            arcobj == channels[thr.req.id]
        IN  /\ thr.pc = "channels"
            /\ thr.req.op = "ready_channel"
            /\ IF arcobj = 0
               THEN ThreadStep(t, Returned(thr, "invalid argument: channel does not exist"),
                               TheNode)
               ELSE /\ Free(arcobj)
                    /\ ThreadStep(t, [ thr EXCEPT !.pc = "stub",
                                                  !.held = Append(thr.held, arcobj) ],
                                  TheNode)

\* ready_channel: require a Stub, build the Channel, unlock both, validate.
ReadyChannelStub ==
    \E t \in Threads :
        LET thr == threads[t]
            s == ready_channel_stub(TheNode, thr.req.id, thr.req.arg.id,
                                    thr.req.arg.setup)
            valid == validate_ready_channel(allowlist, thr.req.arg.setup, << >>)
        IN  /\ thr.pc = "stub"
            /\ IF s.rv # OK THEN ThreadStep(t, Returned(thr, s.rv), TheNode)
               ELSE IF valid # OK
               THEN ThreadStep(t, Returned(thr, "policy failure: " \o valid), TheNode)
               ELSE ThreadStep(t, [ thr EXCEPT !.pc = "ready", !.held = << >>,
                                               !.chan = s.chan ], TheNode)

\* ready_channel: lock the map again.
ReadyChannelLockChannels ==
    \E t \in Threads :
        LET thr == threads[t]
        IN  /\ thr.pc = "ready"
            /\ Free(ChannelsMutex)
            /\ ThreadStep(t, [ thr EXCEPT !.pc = "insert", !.held = << ChannelsMutex >> ],
                          TheNode)

\* ready_channel: insert the new slot under the channel's ids and persist.
ReadyChannelInsert ==
    \E t \in Threads :
        LET thr == threads[t]
            r == ready_channel_insert(TheNode, HeldArcs(threads), allowlist,
                                      Unwrap(thr.chan), << >>, TRUE)
        IN  /\ thr.pc = "insert"
            /\ ThreadStep(t, Returned(thr, r.rv), r.n)

\* new_channel: an id without entry gets its stub; the slot of an id with an
\* entry is locked, the map still locked.
NewChannelLookup ==
    \E t \in Threads :
        LET thr == threads[t]
            maybe_slot == channels[thr.req.id]
            r == new_channel(TheNode, HeldArcs(threads), thr.req.id, thr.req.arg.nonce)
        IN  /\ thr.pc = "channels"
            /\ thr.req.op = "new_channel"
            /\ IF maybe_slot = 0
               THEN ThreadStep(t, Returned(thr, r.rv), r.n)
               ELSE /\ Free(maybe_slot)
                    /\ ThreadStep(t, [ thr EXCEPT !.pc = "existing",
                                                  !.held = Append(thr.held, maybe_slot) ],
                                  TheNode)

\* new_channel: the existing slot is a stub of this nonce, or the call fails.
NewChannelExisting ==
    \E t \in Threads :
        LET thr == threads[t]
            r == new_channel(TheNode, HeldArcs(threads), thr.req.id, thr.req.arg.nonce)
        IN  /\ thr.pc = "existing"
            /\ ThreadStep(t, Returned(thr, r.rv), r.n)

\* find_channel_with_funding_outpoint: lock the slot of the next entry of the
\* map, the map still locked; after the last entry return None.
FindChannelLockSlot ==
    \E t \in Threads :
        LET thr == threads[t]
        IN  /\ thr.pc = "channels"
            /\ thr.req.op = "sign_funding_tx"
            /\ IF thr.cursor > NumChannelIds
               THEN ThreadStep(t, [ thr EXCEPT !.pc = "validate", !.held = << >>,
                                               !.arc = 0 ], TheNode)
               ELSE IF channels[thr.cursor] = 0
               THEN ThreadStep(t, [ thr EXCEPT !.cursor = thr.cursor + 1 ], TheNode)
               ELSE /\ Free(channels[thr.cursor])
                    /\ ThreadStep(t, [ thr EXCEPT
                                         !.pc = "entry",
                                         !.held = Append(thr.held, channels[thr.cursor]) ],
                                  TheNode)

\* find_channel_with_funding_outpoint: return a Ready channel of this
\* outpoint, pass over any other slot.
FindChannelEntry ==
    \E t \in Threads :
        LET thr == threads[t]
            slot_arc == channels[thr.cursor]
            slot == slots[slot_arc]
        IN  /\ thr.pc = "entry"
            /\ IF /\ slot.kind = "Ready"
                  /\ slot.setup.funding_outpoint = OutPoint(thr.req.arg.tx.txid, 0)
               THEN ThreadStep(t, [ thr EXCEPT !.pc = "validate", !.held = << >>,
                                               !.arc = slot_arc ], TheNode)
               ELSE ThreadStep(t, [ thr EXCEPT !.pc = "channels",
                                               !.held = << ChannelsMutex >>,
                                               !.cursor = thr.cursor + 1 ], TheNode)

\* validate_onchain_tx: lock the slot found for the output and check it.
ValidateOnchainTx ==
    \E t \in Threads :
        LET thr == threads[t]
            rv == sign_funding_tx(TheNode, << thr.arc >>, thr.req.arg.tx,
                                  thr.req.arg.values_sat, thr.req.arg.opaths)
        IN  /\ thr.pc = "validate"
            /\ thr.arc # 0 => Free(thr.arc)
            /\ ThreadStep(t, Returned(thr, rv), TheNode)

NextConc ==
    \/ LockChannels
    \/ GetChannel
    \/ LockSlot
    \/ RunChannelOp
    \/ ReadyChannelLockSlot
    \/ ReadyChannelStub
    \/ ReadyChannelLockChannels
    \/ ReadyChannelInsert
    \/ NewChannelLookup
    \/ NewChannelExisting
    \/ FindChannelLockSlot
    \/ FindChannelEntry
    \/ ValidateOnchainTx

ConcSpec == InitConc /\ [][NextConc]_vars

(***************************************************************************)
(* The same requests served one after the other.                           *)
(***************************************************************************)
\* The results and nodes a request can leave when it runs alone on n.
SeqOutcomes(n, req) ==
    CASE req.op = "ready_channel" ->
           { ready_channel(n, {}, allowlist, req.id, req.arg.id, req.arg.setup,
                           << >>, TRUE) }
      [] req.op = "new_channel" ->
           LET r == new_channel(n, {}, req.id, req.arg.nonce)
           IN  { [ rv |-> r.rv, n |-> r.n ] }
      [] req.op = "validate_holder_commitment_tx" ->
           LET g == get_ready_channel(n, req.id)
               chan == n.slots[g.arc]
               r == Channel_validate_holder_commitment_tx(
                        chan.enforcement_state, chan.setup, req.arg.commit_num,
                        NodeHolderInfo(chan.setup))
           IN  IF g.rv # OK THEN { [ rv |-> g.rv, n |-> n ] }
               ELSE { [ rv |-> r.rv, n |-> channel_update(n, g.arc, r) ] }
      [] req.op = "sign_funding_tx" ->
           { [ rv |-> sign_funding_tx(n, found, req.arg.tx, req.arg.values_sat,
                                      req.arg.opaths),
               n |-> n ] : found \in FoundSlots(n, req.arg.tx) }

\* The orders in which the threads' requests can be served one by one.
SeqOrders ==
    { order \in [ 1..NumThreads -> Threads ] :
        \A i, j \in 1..NumThreads : order[i] = order[j] => i = j }

\* The results (by thread) and nodes left by serving the requests of
\* order[i..] one after the other, starting on n with the results rvs.
RECURSIVE SeqRuns(_, _, _, _)
SeqRuns(n, rvs, order, i) ==
    IF i > NumThreads THEN { [ rvs |-> rvs, n |-> n ] }
    ELSE UNION { SeqRuns(o.n, [ rvs EXCEPT ![order[i]] = o.rv ], order, i + 1) :
                   o \in SeqOutcomes(n, threads[order[i]].req) }

AllReturned == \A t \in Threads : threads[t].pc = "done"

\* Some order of the requests, served one by one from the initial node,
\* returns what the threads returned and leaves the node they left.
Linearizable ==
    \E order \in SeqOrders :
        \E run \in SeqRuns(FirstChannel(last), [ t \in Threads |-> None ], order, 1) :
            /\ \A t \in Threads : run.rvs[t] = threads[t].rv
            /\ NodeView(run.n) = NodeView(TheNode)
            /\ run.n.persisted = persisted

\* C27: operations on the same channel are linearizable: whenever the
\* threads have returned, their results and the node they leave are those of
\* serving the same requests one after the other in some order.
C27_OperationsLinearizable == AllReturned => Linearizable

\* Two overlapping ready_channel calls on the same stub have both returned Ok.
C27_Witness ==
    /\ AllReturned
    /\ \E t, u \in Threads :
        /\ t # u
        /\ threads[t].req.op = "ready_channel" /\ threads[u].req.op = "ready_channel"
        /\ threads[t].req.id = threads[u].req.id
        /\ threads[t].rv = OK /\ threads[u].rv = OK

\* The requests that insert into the channels map.
Inserting(thr) == thr.req.op \in { "new_channel", "ready_channel" }

\* The map mutex is never acquired after a slot mutex.
ChannelsMutexFirst(thr) ==
    \A i \in 2..Len(thr.held) : thr.held[i] # ChannelsMutex

\* C28 as stated: the map mutex is acquired before any slot mutex, and only a
\* request that inserts into the map holds the map mutex and a slot mutex at
\* the same time.
C28_BothHeldOnlyForInsertion ==
    \A t \in Threads :
        /\ ChannelsMutexFirst(threads[t])
        /\ Len(threads[t].held) >= 2 => Inserting(threads[t])

\* C28, amended: the map mutex is acquired before any slot mutex; a thread
\* holds both exactly while it examines a slot it has looked up (the stub
\* check of ready_channel, new_channel's check of an existing slot, the scan
\* of find_channel_with_funding_outpoint); a channel operation runs under the
\* slot mutex alone and ready_channel inserts under the map mutex alone.
C28_LockOrderAndOverlap ==
    \A t \in Threads :
        LET thr == threads[t]
        IN  /\ ChannelsMutexFirst(thr)
            /\ Len(thr.held) <= 2
            /\ Len(thr.held) = 2 <=> thr.pc \in { "stub", "existing", "entry" }
            /\ Len(thr.held) = 2 => thr.held[1] = ChannelsMutex
            /\ thr.pc = "run" => thr.held = << thr.arc >>
            /\ thr.pc = "insert" => thr.held = << ChannelsMutex >>

\* find_channel_with_funding_outpoint holds the map mutex and the mutex of
\* the slot it examines while another thread, back from get_channel with its
\* handle, is about to lock a slot.
C28_Witness ==
    \E t, u \in Threads :
        /\ threads[t].req.op = "sign_funding_tx"
        /\ Len(threads[t].held) = 2
        /\ threads[t].held[1] = ChannelsMutex
        /\ threads[u].pc = "slot"

(***************************************************************************)
(* The progression of the three counters.                                  *)
(***************************************************************************)
\* C33: set_next_holder_commit_num(new) succeeds only for new == current,
\* which changes nothing, or new == current + 1; any other value fails and
\* leaves the state as it was.  So validate_holder_commitment_tx is accepted
\* only for commit_num = next_holder_commit_num or next_holder_commit_num - 1
\* and leaves next_holder_commit_num = commit_num + 1.
C33_HolderCommitNumProgression ==
    [][ LET current == estate.next_holder_commit_num
        IN  /\ \A num \in 0..(MaxCommitNum + 2), info \in HolderInfos(setup) :
                 LET r == set_next_holder_commit_num(estate, num, info)
                 IN  /\ r.rv = OK <=> num \in { current, current + 1 }
                     /\ r.rv # OK => r.es = estate
                     /\ num = current => r.es = estate
                     /\ r.rv = OK => r.es.next_holder_commit_num = num
            /\ last'.op = "validate_holder_commitment_tx" =>
                 /\ last'.rv = OK =>
                      /\ last'.num \in { current, current - 1 }
                      /\ estate'.next_holder_commit_num = last'.num + 1
                 /\ last'.rv # OK => estate' = estate
      ]_vars

\* A validation ahead of next_holder_commit_num was refused after the counter
\* had advanced.
C33_Witness ==
    /\ last.op = "validate_holder_commitment_tx"
    /\ last.rv # OK
    /\ estate.next_holder_commit_num >= 1
    /\ last.num > estate.next_holder_commit_num

(***************************************************************************)
(* The counterparty's commit/revoke cycle alone, over more commitments:    *)
(* sign_counterparty_commitment_tx and validate_counterparty_revocation    *)
(* on one Ready channel.                                                   *)
(***************************************************************************)
MaxCycleNum == 3       \* requests name commitment numbers 0..MaxCycleNum

CycleNums == 0..MaxCycleNum

InitCycle ==
    /\ setup \in Setups
    /\ estate = EnforcementState_new
    /\ allowlist = {}
    /\ last = Request("ready_channel", 0, 0, None, None, OK)
    /\ cp_signed = {}
    /\ Node_new

CycleSignCounterpartyCommitmentTx ==
    \E commit_num \in CycleNums, point \in Points, info \in CounterpartyInfos(setup) :
        LET r == Channel_sign_counterparty_commitment_tx(estate, setup, commit_num,
                                                         point, info)
        IN  /\ r.es.next_counterparty_commit_num <= MaxCycleNum
            /\ estate' = r.es
            /\ last' = Request("sign_counterparty_commitment_tx", commit_num, point,
                               Some(info), None, r.rv)
            /\ cp_signed' = IF r.rv = OK
                            THEN cp_signed \cup { << commit_num, point >> }
                            ELSE cp_signed
            /\ UNCHANGED << setup, allowlist, node_vars >>

CycleValidateCounterpartyRevocation ==
    \E revoke_num \in CycleNums, secret \in Secrets :
        LET r == Channel_validate_counterparty_revocation(estate, revoke_num, secret)
        IN  /\ estate' = r.es
            /\ last' = Request("validate_counterparty_revocation", revoke_num, secret,
                               None, None, r.rv)
            /\ UNCHANGED << setup, allowlist, cp_signed, node_vars >>

NextCycle ==
    \/ CycleSignCounterpartyCommitmentTx
    \/ CycleValidateCounterpartyRevocation

CycleSpec == InitCycle /\ [][NextCycle]_vars

\* C34: validate_counterparty_revocation accepts revoke_num only when it is
\* next_counterparty_revoke_num or next_counterparty_revoke_num - 1; any
\* other revoke_num, behind or ahead, fails and leaves the state as it was.
\* So once revocation n has been accepted, revoke_num n - 1 is refused.
C34_RevocationNumWindow ==
    [][ LET current == estate.next_counterparty_revoke_num
        IN  last'.op = "validate_counterparty_revocation" =>
              /\ \A revoke_num \in CycleNums, secret \in Secrets :
                   validate_counterparty_revocation(estate, revoke_num, secret) = OK
                       => revoke_num \in { current, current - 1 }
              /\ last'.rv = OK => last'.num \in { current, current - 1 }
              /\ last'.num \notin { current, current - 1 } =>
                   /\ last'.rv = "invalid counterparty revoke_num"
                   /\ estate' = estate
              /\ last'.rv # OK =>
                   estate'.next_counterparty_revoke_num = current
      ]_vars

\* Revocation 1 has been accepted and a revocation of 0 has then been refused.
C34_Witness ==
    /\ last.op = "validate_counterparty_revocation"
    /\ last.rv # OK
    /\ estate.next_counterparty_revoke_num >= 2
    /\ last.num + 2 = estate.next_counterparty_revoke_num

\* The three counters of an EnforcementState.
Counters(es) ==
    << es.next_holder_commit_num, es.next_counterparty_commit_num,
       es.next_counterparty_revoke_num >>

\* C39: whatever the operation and whether it succeeds or fails,
\* next_holder_commit_num, next_counterparty_commit_num and
\* next_counterparty_revoke_num never decrease and each grows by at most 1.
C39_CountersMonotonic ==
    [][ \A i \in 1..3 :
          Counters(estate')[i] \in { Counters(estate)[i], Counters(estate)[i] + 1 }
      ]_vars

\* A request was refused when all three counters had advanced.
C39_Witness ==
    /\ last.rv # OK
    /\ \A i \in 1..3 : Counters(estate)[i] >= 1

\* Some request signing the next counterparty commitment is accepted and
\* advances next_counterparty_commit_num.
CanSignNextCounterpartyCommitment ==
    \E point \in Points, info \in CounterpartyInfos(setup) :
        LET r == Channel_sign_counterparty_commitment_tx(
                     estate, setup, estate.next_counterparty_commit_num, point, info)
        IN  /\ r.rv = OK
            /\ r.es.next_counterparty_commit_num = estate.next_counterparty_commit_num + 1

\* The revocation of next_counterparty_revoke_num with the secret of the
\* commitment's point is accepted and advances next_counterparty_revoke_num.
CanRevokeNextCounterpartyCommitment ==
    \E secret \in Secrets :
        LET r == Channel_validate_counterparty_revocation(
                     estate, estate.next_counterparty_revoke_num, secret)
        IN  /\ r.rv = OK
            /\ r.es.next_counterparty_revoke_num = estate.next_counterparty_revoke_num + 1

\* C40: the counterparty commit/revoke cycle never gets stuck: while no
\* mutual close has been signed, signing the next counterparty commitment or
\* validating the next revocation with the right secret is accepted and
\* advances the state.
C40_CycleNeverStuck ==
    ~estate.mutual_close_signed =>
        CanSignNextCounterpartyCommitment \/ CanRevokeNextCounterpartyCommitment

\* Two commitments are unrevoked after an earlier revocation: the next
\* commitment has just been refused and only the revocation can advance.
C40_Witness ==
    /\ estate.next_counterparty_revoke_num >= 1
    /\ estate.next_counterparty_commit_num = estate.next_counterparty_revoke_num + 2
    /\ last.op = "sign_counterparty_commitment_tx"
    /\ last.num = estate.next_counterparty_commit_num
    /\ last.rv # OK
    /\ ~CanSignNextCounterpartyCommitment
    /\ CanRevokeNextCounterpartyCommitment

(***************************************************************************)
(* The allowlist requests.                                                 *)
(***************************************************************************)
\* The list holds a string that is no address or an address of another
\* network than the node's.
HasBadAddress(list) ==
    \E i \in 1..Len(list) :
        \/ IsNone(parse_address(list[i]))
        \/ Unwrap(parse_address(list[i])).network # node_network

HasGoodAddress(list) ==
    \E i \in 1..Len(list) :
        /\ IsSome(parse_address(list[i]))
        /\ Unwrap(parse_address(list[i])).network = node_network

AllowlistOps == { "add_allowlist", "remove_allowlist" }

\* C32: add_allowlist or remove_allowlist with a list holding an unparseable
\* address or an address of another network fails with InvalidArgument and
\* leaves the allowlist as it was, whatever valid addresses the list holds.
C32_BadAddressRejectsWholeList ==
    [][ (last'.op \in AllowlistOps /\ HasBadAddress(Unwrap(last'.tx))) =>
          /\ last'.rv \in { "invalid argument: parse address failed",
                            "invalid argument: network mismatch" }
          /\ allowlist' = allowlist
      ]_vars

\* A list of a valid address not in the allowlist and a bad one was refused.
C32_Witness ==
    /\ last.op = "add_allowlist"
    /\ HasBadAddress(Unwrap(last.tx))
    /\ HasGoodAddress(Unwrap(last.tx))
    /\ last.rv # OK
    /\ allowlist = {}

(***************************************************************************)
(* Requests whose write to the persister may fail: the node's new_channel, *)
(* ready_channel, add_allowlist and remove_allowlist, one at a time.       *)
(***************************************************************************)
NodeReadyChannelPersist ==
    \E req \in ReadyChannelRequests, persist_ok \in BOOLEAN :
        LET r == ready_channel(TheNode, {}, allowlist, req.id0, req.id, req.setup,
                               << >>, persist_ok)
        IN  /\ channels' = Canonical(r.n).channels
            /\ slots' = Canonical(r.n).slots
            /\ persisted' = r.n.persisted
            /\ last' = NodeRequest("ready_channel", req.id0,
                                   [ id |-> req.id, setup |-> req.setup ], r.rv)
            /\ UNCHANGED << setup, estate, allowlist, cp_signed, threads >>

NextPersist ==
    \/ NodeNewChannel
    \/ NodeReadyChannelPersist
    \/ AddAllowlist
    \/ RemoveAllowlist

PersistSpec == InitNode /\ [][NextPersist]_vars

PersistFailed(rv) == rv = "internal: persist failed"

\* C38: when ready_channel, add_allowlist or remove_allowlist returns an
\* error because the write to the persister failed, the channels map and the
\* allowlist in memory are as they were before the call.
C38_PersistFailureLeavesMemoryUnchanged ==
    [][ PersistFailed(last'.rv) =>
          /\ NodeView(TheNode') = NodeView(TheNode)
          /\ allowlist' = allowlist
      ]_vars

\* ready_channel has returned the persist failure: the channel is Ready in
\* memory while the persister still holds the record of its stub.
C38_Witness ==
    /\ last.op = "ready_channel"
    /\ PersistFailed(last.rv)
    /\ Resolve(last.id).kind = "Ready"
    /\ IsSome(persisted[last.id])
    /\ IsNone(Unwrap(persisted[last.id]).channel_setup)

(***************************************************************************)
(* Overlapping ready_channel calls.                                        *)
(***************************************************************************)
\* Threads t and u have both returned from ready_channel for the same id0.
BothReadiedSameStub(t, u) ==
    /\ t # u
    /\ threads[t].pc = "done" /\ threads[u].pc = "done"
    /\ threads[t].req.op = "ready_channel" /\ threads[u].req.op = "ready_channel"
    /\ threads[t].req.id = threads[u].req.id

\* C36: of two ready_channel calls for the same Stub that run at the same
\* time at most one returns Ok, and the Ready channel left in the map has
\* the setup and the permanent id of the call that returned Ok.
C36_AtMostOneReadyChannelSucceeds ==
    \A t, u \in Threads :
        BothReadiedSameStub(t, u) =>
            /\ ~(threads[t].rv = OK /\ threads[u].rv = OK)
            /\ threads[t].rv = OK =>
                 /\ Resolve(threads[t].req.id).kind = "Ready"
                 /\ Resolve(threads[t].req.id).setup = threads[t].req.arg.setup
                 /\ Resolve(threads[t].req.id).id = threads[t].req.arg.id

\* Both calls returned Ok: the permanent id of one reaches its channel, id0
\* reaches the other's.
C36_Witness ==
    \E t, u \in Threads :
        /\ BothReadiedSameStub(t, u)
        /\ threads[t].rv = OK /\ threads[u].rv = OK
        /\ IsSome(threads[t].req.arg.id) /\ IsNone(threads[u].req.arg.id)
        /\ channels[Unwrap(threads[t].req.arg.id)] # 0
        /\ channels[Unwrap(threads[t].req.arg.id)] # channels[threads[t].req.id]
        /\ Resolve(Unwrap(threads[t].req.arg.id)).kind = "Ready"
        /\ Resolve(threads[t].req.id).kind = "Ready"

\* C37: ready_channel never changes which slot is reached through a key of
\* another channel: every key that reached a channel with another id0 before
\* the call reaches the same channel, in the same state, after it.
C37_ReadyChannelKeepsOtherChannelsKeys ==
    [][ last'.op = "ready_channel" =>
          \A k \in ChannelIds :
              (channels[k] # 0 /\ Resolve(k).id0 # last'.id) =>
                  /\ channels'[k] # 0
                  /\ Resolve(k)' = Resolve(k)
      ]_vars

\* ready_channel for id0 2 returned Ok with permanent id 1, the id0 of
\* another channel: key 1 now reaches the channel of id0 2.
C37_Witness ==
    /\ last.op = "ready_channel"
    /\ last.rv = OK
    /\ IsSome(last.arg.id)
    /\ IsSome(persisted[Unwrap(last.arg.id)])
    /\ Unwrap(last.arg.id) # last.id
    /\ Resolve(Unwrap(last.arg.id)).id0 = last.id

(***************************************************************************)
(* The resolution of a mutual close's outputs, over channels whose two     *)
(* commitments are in place: every pair of balances, an allowlist that is  *)
(* empty or holds the counterparty's address, and closing transactions     *)
(* that pay the two sides in either order.                                 *)
(***************************************************************************)
AssignShapes ==
    { [ h |-> 2949000, c |-> 0 ],
      [ h |-> 1949000, c |-> 1000000 ],
      [ h |-> 1474500, c |-> 1474500 ],
      [ h |-> 0,       c |-> 2949000 ] }

AssignStates(su) ==
    { [ next_holder_commit_num            |-> 2,
        next_counterparty_commit_num      |-> 2,
        next_counterparty_revoke_num      |-> 1,
        current_counterparty_point        |-> Some(Pubkey(2)),
        previous_counterparty_point       |-> Some(Pubkey(1)),
        current_holder_commit_info        |->
            Some(CommitmentInfo2(FALSE, sh.h, sh.c,
                                 su.counterparty_selected_contest_delay, << >>, << >>)),
        current_counterparty_commit_info  |->
            Some(CommitmentInfo2(TRUE, sc.c, sc.h,
                                 su.holder_selected_contest_delay, << >>, << >>)),
        previous_counterparty_commit_info |-> None,
        mutual_close_signed               |-> FALSE ] :
      sh \in AssignShapes, sc \in AssignShapes }

AssignRequests ==
    CloseRequests \cup
    { [ tx |-> [ output |-> << TxOut(1474500, 50),
                               TxOut(1474500, native_script(WalletPath)) >> ],
        opaths |-> << << >>, WalletPath >> ],
      [ tx |-> [ output |-> << TxOut(1474500, native_script(WalletPath)),
                               TxOut(1474500, 150) >> ],
        opaths |-> << WalletPath, << >> >> ],
      [ tx |-> [ output |-> << TxOut(2949000, 50) >> ],
        opaths |-> << << >> >> ] }

InitAssign ==
    /\ setup \in Setups
    /\ estate \in AssignStates(setup)
    /\ allowlist \in { {}, {50} }
    /\ last = Request("ready_channel", 0, 0, None, None, OK)
    /\ cp_signed = {}
    /\ Node_new

AssignSignMutualCloseTx ==
    \E req \in AssignRequests :
        LET r == Channel_sign_mutual_close_tx(estate, setup, allowlist, req.tx,
                                              req.opaths)
        IN  /\ estate' = r.es
            /\ last' = Request("sign_mutual_close_tx", 0, 0, None, Some(req), r.rv)
            /\ UNCHANGED << setup, allowlist, cp_signed, node_vars >>

NextAssign == AssignSignMutualCloseTx

AssignSpec == InitAssign /\ [][NextAssign]_vars

\* The two assignments of the outputs of a closing transaction, first-tried
\* first: with one output it is the holder's or the counterparty's, with two
\* the holder's is output[0] or output[1].
MutualCloseAssignments(es, tx, wallet_paths) ==
    LET larger == OptionGreater(minimum_to_holder_value(es, policy.epsilon_sat),
                                minimum_to_counterparty_value(es, policy.epsilon_sat))
        o1 == tx.output[1]
        o2 == tx.output[2]
        holders_output == ValidateArgs(o1.value, 0, Some(o1.script_pubkey), None,
                                       wallet_paths[1])
        cpartys_output == ValidateArgs(0, o1.value, None, Some(o1.script_pubkey),
                                       << >>)
        holder_first == ValidateArgs(o1.value, o2.value, Some(o1.script_pubkey),
                                     Some(o2.script_pubkey), wallet_paths[1])
        cparty_first == ValidateArgs(o2.value, o1.value, Some(o2.script_pubkey),
                                     Some(o1.script_pubkey), wallet_paths[2])
    IN  IF Len(tx.output) = 1
        THEN IF larger THEN << holders_output, cpartys_output >>
                       ELSE << cpartys_output, holders_output >>
        ELSE IF larger THEN << cparty_first, holder_first >>
                       ELSE << holder_first, cparty_first >>

\* A sign_mutual_close_tx step whose transaction has one or two outputs, a
\* path per output, and both commitments present: the assignments are tried.
AssignmentsTried ==
    /\ last'.op = "sign_mutual_close_tx"
    /\ Len(Unwrap(last'.tx).tx.output) \in {1, 2}
    /\ Len(Unwrap(last'.tx).opaths) = Len(Unwrap(last'.tx).tx.output)
    /\ IsSome(estate.current_holder_commit_info)
    /\ IsSome(estate.current_counterparty_commit_info)

LikelyArgs ==
    MutualCloseAssignments(estate, Unwrap(last'.tx).tx, Unwrap(last'.tx).opaths)[1]

UnlikelyArgs ==
    MutualCloseAssignments(estate, Unwrap(last'.tx).tx, Unwrap(last'.tx).opaths)[2]

LikelyResult == try_mutual_close_args(allowlist, setup, estate, LikelyArgs)

UnlikelyResult == try_mutual_close_args(allowlist, setup, estate, UnlikelyArgs)

\* The closing transaction rebuilt from an assignment is the one submitted.
Recomposes(args) ==
    built_closing_outputs(args.to_holder_value_sat, args.to_counterparty_value_sat,
                          args.holder_script, args.counterparty_script)
        = Unwrap(last'.tx).tx.output

\* C35 (as stated): a close is accepted if either assignment of its outputs
\* passes validation, and when both fail the error is the one of the
\* first-tried assignment.
C35_AcceptedIfEitherAssignmentPasses ==
    [][ AssignmentsTried =>
          /\ (LikelyResult = OK \/ UnlikelyResult = OK) => last'.rv = OK
          /\ (LikelyResult # OK /\ UnlikelyResult # OK) => last'.rv = LikelyResult
      ]_vars

\* C35 (amended): the first-tried assignment is taken when it passes
\* validation, the second only when the first fails and the second passes;
\* the close is accepted exactly when the transaction is the one rebuilt from
\* the assignment taken, and is refused with "recomposed tx mismatch" when it
\* is not; when both assignments fail the error is the first-tried one's.
C35_AssignmentResolution ==
    [][ AssignmentsTried =>
          last'.rv =
              IF LikelyResult = OK
              THEN IF Recomposes(LikelyArgs) THEN OK ELSE "recomposed tx mismatch"
              ELSE IF UnlikelyResult = OK
              THEN IF Recomposes(UnlikelyArgs) THEN OK ELSE "recomposed tx mismatch"
              ELSE LikelyResult
      ]_vars

\* A close with two outputs of equal value was accepted on the second
\* assignment: the first-tried one, the holder at output[0], does not pass.
C35_Witness ==
    /\ last.op = "sign_mutual_close_tx"
    /\ last.rv = OK
    /\ estate.mutual_close_signed
    /\ Len(Unwrap(last.tx).tx.output) = 2
    /\ LET args == MutualCloseAssignments(estate, Unwrap(last.tx).tx,
                                          Unwrap(last.tx).opaths)
       IN  /\ try_mutual_close_args(allowlist, setup, estate, args[1]) # OK
           /\ try_mutual_close_args(allowlist, setup, estate, args[2]) = OK

(***************************************************************************)
(* Arithmetic of the validator at the edge of its integer types.  A u32 is *)
(* kept at its width as two 16-bit halves, value = hi * 2^16 + lo.  The    *)
(* operators + and - of Rust on integers panic on overflow when the build  *)
(* has overflow checks (the debug profile) and wrap otherwise (release).   *)
(***************************************************************************)
Half == 65536

U32(hi, lo) == [ hi |-> hi, lo |-> lo ]

u32_MAX == U32(Half - 1, Half - 1)

\* a + d of u32 for d below 2^16: the wrapped sum, and whether the exact sum
\* exceeds u32::MAX.
u32_add(a, d) ==
    LET lo == a.lo + d
        hi == a.hi + (lo \div Half)
    IN  [ value |-> U32(hi % Half, lo % Half), overflow |-> hi >= Half ]

u32_lt(a, b) == a.hi < b.hi \/ (a.hi = b.hi /\ a.lo < b.lo)

\* make_test_validator: the policy that consults the chain state.
ChainStatePolicy ==
    [ policy EXCEPT !.min_delay = 5, !.max_delay = 1440, !.use_chain_state = TRUE ]

\* validate_expiry over the whole of u32, under a policy and a build.
validate_expiry_u32(pol, overflow_checks, name, expiry, current_height) ==
    IF pol.use_chain_state
    THEN LET earliest == u32_add(current_height, pol.min_delay)
             latest == u32_add(current_height, pol.max_delay)
         IN  IF earliest.overflow /\ overflow_checks
             THEN "panic: attempt to add with overflow"
             ELSE IF u32_lt(expiry, earliest.value)
             THEN name \o " expiry too early"
             ELSE IF latest.overflow /\ overflow_checks
             THEN "panic: attempt to add with overflow"
             ELSE IF u32_lt(latest.value, expiry)
             THEN name \o " expiry too late"
             ELSE OK
    ELSE OK

\* Block heights from genesis up to u32::MAX, around the two heights from
\* which current_height + max_delay and current_height + min_delay overflow.
ArithHeights ==
    { U32(0, 0), U32(0, 1000),
      U32(Half - 1, Half - 1 - 1440), U32(Half - 1, Half - 1440),
      U32(Half - 1, Half - 1 - 5), U32(Half - 1, Half - 5),
      u32_MAX }

ArithExpiries ==
    { U32(0, 0), U32(0, 4), U32(0, 1004), U32(0, 1005), U32(0, 2440), U32(0, 2441),
      U32(Half - 1, Half - 1000), u32_MAX }

ArithSums == { 0, 900, 1000, 2949000, 3000000, 3000001 }

InitArith ==
    /\ setup \in Setups
    /\ estate = EnforcementState_new
    /\ allowlist = {}
    /\ last = [ op |-> "new_validator", rv |-> OK ]
    /\ cp_signed = {}
    /\ Node_new

ArithValidateExpiry ==
    \E pol \in { policy, ChainStatePolicy }, overflow_checks \in BOOLEAN,
       expiry \in ArithExpiries, current_height \in ArithHeights :
        /\ last' = [ op |-> "validate_expiry", policy |-> pol,
                     overflow_checks |-> overflow_checks, expiry |-> expiry,
                     current_height |-> current_height,
                     rv |-> validate_expiry_u32(pol, overflow_checks, "offered HTLC",
                                                expiry, current_height) ]
        /\ UNCHANGED << setup, estate, allowlist, cp_signed, node_vars >>

ArithValidateFee ==
    \E sum_inputs \in ArithSums, sum_outputs \in ArithSums :
        /\ last' = [ op |-> "validate_fee", sum_inputs |-> sum_inputs,
                     sum_outputs |-> sum_outputs,
                     rv |-> validate_fee(sum_inputs, sum_outputs) ]
        /\ UNCHANGED << setup, estate, allowlist, cp_signed, node_vars >>

NextArith == ArithValidateExpiry \/ ArithValidateFee

ArithSpec == InitArith /\ [][NextArith]_vars

\* The exact value of a sum or difference the request computes is outside
\* its type: the fee is negative, or a height plus a delay exceeds u32::MAX
\* (the second sum being computed only when the first check has passed).
ExactResultOutOfRange ==
    \/ /\ last.op = "validate_fee"
       /\ last.sum_inputs - last.sum_outputs < 0
    \/ /\ last.op = "validate_expiry"
       /\ last.policy.use_chain_state
       /\ \/ last.current_height.hi = Half - 1
             /\ last.current_height.lo + last.policy.min_delay > Half - 1
          \/ /\ ~u32_lt(last.expiry, u32_add(last.current_height,
                                             last.policy.min_delay).value)
             /\ last.current_height.hi = Half - 1
             /\ last.current_height.lo + last.policy.max_delay > Half - 1

ArithPanic(rv) == rv = "panic: attempt to add with overflow"

\* C31: no satoshi, fee or block-height arithmetic of validation wraps
\* silently: when a sum or difference would leave its integer type, the
\* operation fails with an error.
C31_NoSilentWraparound ==
    ExactResultOutOfRange => (last.rv # OK /\ ~ArithPanic(last.rv))

\* validate_expiry, built without overflow checks, accepted an expiry at a
\* height for which current_height + min_delay exceeds u32::MAX.
C31_Witness ==
    /\ last.op = "validate_expiry"
    /\ ~last.overflow_checks
    /\ u32_add(last.current_height, last.policy.min_delay).overflow
    /\ last.policy.use_chain_state
    /\ last.rv = OK

====
